---- MODULE Spec2Model ----
(***************************************************************************)
(* Fabric swatch extractor (src/fabric-extractor/app.py).                  *)
(*                                                                         *)
(* Spec follows FabricSwatchExtractor.process_page on one page of a        *)
(* document: label extraction, image extraction and classification, the    *)
(* greedy spatial matcher, the series filter, the saving of the matches    *)
(* and the phase 9 count validation with auto-fix.  SpecRun follows run()  *)
(* over a whole document: the phase validations, the page loop (with the   *)
(* same process_page steps), the final validations, the output files and   *)
(* the release of the document.  SpecUpload follows the /upload handler    *)
(* under overlapping requests.                                             *)
(*                                                                         *)
(* Strings are sequences of one-character strings, so that strip(),        *)
(* startswith() and the regular expressions are computed and not assumed.  *)
(* Coordinates are integers; every bounding box has an even width and      *)
(* height, so that the centre (a + b) / 2 is an integer.                   *)
(***************************************************************************)
EXTENDS Integers, Sequences, FiniteSets, TLC

VARIABLES
    page,               \* the page being processed: [spans, images]
    pc,                 \* position inside process_page
    exception,          \* "" or the call whose exception left process_page
    specs,              \* result of parse_page_specs
    labels,             \* result of find_labels
    flat_swatches,      \* first pool returned by extract_images
    curled_images,      \* second pool returned by extract_images
    flat_matches,       \* matches after the flat pass (app.py line 510)
    primary_matches,    \* matches after the curled pass (app.py line 516)
    matches,            \* matches after the series filter (app.py line 521)
    results,            \* the page's result records
    expected_codes,     \* app.py line 557
    fix_order,          \* the order in which the set `missing` was iterated
    fixed,              \* the records returned by validate_phase9_with_fix
    saved_files,        \* every pil_img.save call, in order
    technical_specs,    \* self.technical_specs
    extracted_codes,    \* self.extracted_codes
    validation_log,     \* self.validation_log
    validations_passed, \* self.validations_passed
    fixes_applied,      \* self.fixes_applied
    page_counts,        \* self.page_counts
    doc,                \* self.doc: the pages of the opened document
    page_num,           \* the page number process_page was called with
    rpc,                \* position inside run()
    doc_open,           \* the handle of fitz.open is open
    closes,             \* the number of self.doc.close() calls
    written,            \* the output files run() has written
    now,                \* the wall clock of the server, in seconds
    requests,           \* the upload requests: position and local variables
    upload_folder,      \* the files of UPLOAD_FOLDER
    output_folder,      \* the directories and archives of OUTPUT_FOLDER
    lines,              \* the lines of the pricing document, page after page
    line_index,         \* the lines of it parse_pricing_pdf has read
    current_codes,      \* parse_pricing_pdf: the codes of the open group
    current_category,   \* parse_pricing_pdf: the category of the open group
    cordless_price,     \* parse_pricing_pdf: first price of the group, 0 if none
    bead_chain_price,   \* parse_pricing_pdf: second price of the group
    fabric_data,        \* self.fabric_data: code -> prices and category
    extractor,          \* the class of the multi-catalog extractor
    extracted_images,   \* self.extracted_images: code -> file name
    image_files,        \* every image file written, in order
    calls               \* the catalog calls made: method and catalog

\* the state of one process_page call
pagevars == <<page, pc, exception, specs, labels, flat_swatches, curled_images,
              flat_matches, primary_matches, matches, results, expected_codes,
              fix_order, fixed, saved_files, technical_specs, extracted_codes,
              validation_log, validations_passed, fixes_applied, page_counts>>

\* the state of run() around the page loop
runvars == <<doc, page_num, rpc, doc_open, closes, written>>

\* the state of the upload handler
webvars == <<now, requests, upload_folder, output_folder>>

\* the state of parse_pricing_pdf
pricingvars == <<lines, line_index, current_codes, current_category,
                 cordless_price, bead_chain_price, fabric_data>>

\* the state of a multi-catalog extractor
catalogvars == <<extractor, extracted_images, image_files, calls>>

vars == <<pagevars, runvars, webvars, pricingvars, catalogvars>>

(***************************************************************************)
(* Bounds of the model.                                                    *)
(***************************************************************************)
MaxSpans == 2

MaxImages == 2

(***************************************************************************)
(* Text helpers.                                                           *)
(***************************************************************************)
Digit == {"0", "1", "2", "3", "4", "5", "6", "7", "8", "9"}

Alpha == {"A", "B", "C", "D", "E", "F", "G", "H", "I", "J", "K", "L", "M",
          "N", "O", "P", "Q", "R", "S", "T", "U", "V", "W", "X", "Y", "Z",
          "a", "b", "c", "d", "e", "f", "g", "h", "i", "j", "k", "l", "m",
          "n", "o", "p", "q", "r", "s", "t", "u", "v", "w", "x", "y", "z"}

Abs(x) == IF x < 0 THEN -x ELSE x

RECURSIVE LStrip(_)
LStrip(s) == IF s # <<>> /\ Head(s) = " " THEN LStrip(Tail(s)) ELSE s

RECURSIVE RStrip(_)
RStrip(s) ==
    IF s # <<>> /\ s[Len(s)] = " " THEN RStrip(SubSeq(s, 1, Len(s) - 1)) ELSE s

\* str.strip()
Strip(s) == RStrip(LStrip(s))

\* str.startswith(prefix)
StartsWith(s, prefix) ==
    Len(prefix) <= Len(s) /\ SubSeq(s, 1, Len(prefix)) = prefix

\* len(text) == 6 and text[:5].isdigit() and text[5].isalpha()
IsCode(text) ==
    /\ Len(text) = 6
    /\ \A i \in 1..5 : text[i] \in Digit
    /\ text[6] \in Alpha

\* centre of a bounding box <<x0, y0, x1, y1>>
Centre(bbox) ==
    [cx |-> (bbox[1] + bbox[3]) \div 2, cy |-> (bbox[2] + bbox[4]) \div 2]

(***************************************************************************)
(* The input pages.  A page owns its text spans (each span is a line of    *)
(* its own, in document order) and its embedded images, each with the      *)
(* rectangles it is placed at.  extract_ok says whether doc.extract_image  *)
(* succeeds for the image, pil_ok whether PIL can open its bytes.          *)
(***************************************************************************)
S82046 == <<"8", "2", "0", "4", "6">>

S83046 == <<"8", "3", "0", "4", "6">>

S83099 == <<"8", "3", "0", "9", "9">>

\* the bounding box of a text span centred at (cx, cy)
SpanBox(cx, cy) == <<cx - 30, cy - 10, cx + 30, cy + 10>>

\* the placement rectangle of an image centred at (cx, cy)
ImageRect(cx, cy) == <<cx - 40, cy - 40, cx + 40, cy + 40>>

Span(text, cx, cy) == [text |-> text, bbox |-> SpanBox(cx, cy)]

\* the spans that may precede the labels of a page: nothing, or a heading
\* that carries a series number
Headers ==
    { <<>>,
      << Span(S82046, 200, 60) >>,
      << Span(S83046, 200, 60) >> }

\* the label spans a page is built from
LabelSpans ==
    { Span(S82046 \o <<"A">>, 100, 300),
      Span(S82046 \o <<"A">>, 300, 300),
      Span(S82046 \o <<"B">>, 300, 300),
      Span(S82046 \o <<"C">>, 200, 200),
      Span(S83046 \o <<"C">>, 300, 350),
      Span(<<" ">> \o S83099 \o <<"A", " ">>, 120, 310) }

Image(xref, extract_ok, pil_ok, bytes, w, h, rects) ==
    [xref |-> xref, extract_ok |-> extract_ok, pil_ok |-> pil_ok,
     bytes |-> bytes, w |-> w, h |-> h, rects |-> rects]

\* the embedded images a page is built from
PageImages ==
    { Image(11, TRUE, TRUE, "b1", 600, 600, << ImageRect(100, 200) >>),
      Image(12, TRUE, TRUE, "b1", 600, 600,
            << ImageRect(100, 200), ImageRect(200, 100) >>),
      Image(13, TRUE, TRUE, "b3", 600, 600,
            << ImageRect(300, 200), ImageRect(0, 0) >>),
      Image(14, TRUE, TRUE, "b4", 800, 500, << ImageRect(300, 200) >>),
      Image(15, TRUE, TRUE, "b5", 405, 300, << ImageRect(100, 200) >>),
      Image(16, FALSE, TRUE, "b6", 600, 600, << ImageRect(300, 200) >>),
      Image(17, TRUE, FALSE, "b7", 600, 600, << ImageRect(130, 220) >>) }

\* the sequences of at most n distinct elements of S
DistinctSeqs(S, n) ==
    UNION { { s \in [1..k -> S] : \A i, j \in 1..k : i # j => s[i] # s[j] } :
            k \in 0..n }

Pages ==
    { [spans |-> h \o b, images |-> im] :
        h \in Headers,
        b \in DistinctSeqs(LabelSpans, MaxSpans),
        im \in DistinctSeqs(PageImages, MaxImages) }

(***************************************************************************)
(* parse_page_specs: the series and the category of the page.              *)
(***************************************************************************)
\* page.get_text() as its sequence of words, in document order
PageWords(p) == [i \in 1..Len(p.spans) |-> Strip(p.spans[i].text)]

\* a word that the pattern \b(8[012]\d{3})\b matches
IsSeries(word) ==
    /\ Len(word) = 5
    /\ word[1] = "8"
    /\ word[2] \in {"0", "1", "2"}
    /\ \A i \in 3..5 : word[i] \in Digit

\* re.search: the leftmost match, <<>> for None
SeriesSearch(words) ==
    LET hits == {i \in 1..Len(words) : IsSeries(words[i])}
    IN  IF hits = {} THEN <<>>
        ELSE words[CHOOSE i \in hits : \A j \in hits : i <= j]

\* page.get_text(): the text of each span followed by a newline
RECURSIVE PageText(_)
PageText(spans) ==
    IF spans = <<>> THEN <<>>
    ELSE Head(spans).text \o << "\n" >> \o PageText(Tail(spans))

Capitals == << "A", "B", "C", "D", "E", "F", "G", "H", "I", "J", "K", "L", "M",
               "N", "O", "P", "Q", "R", "S", "T", "U", "V", "W", "X", "Y", "Z" >>

Smalls == << "a", "b", "c", "d", "e", "f", "g", "h", "i", "j", "k", "l", "m",
             "n", "o", "p", "q", "r", "s", "t", "u", "v", "w", "x", "y", "z" >>

\* str.lower()
Lower(s) ==
    [i \in 1..Len(s) |->
        IF \E k \in 1..Len(Capitals) : Capitals[k] = s[i]
        THEN Smalls[CHOOSE k \in 1..Len(Capitals) : Capitals[k] = s[i]]
        ELSE s[i]]

\* sub in s, scanning s from the left
RECURSIVE Contains(_, _)
Contains(s, sub) ==
    IF Len(s) < Len(sub) THEN FALSE
    ELSE IF StartsWith(s, sub) THEN TRUE
    ELSE Contains(Tail(s), sub)

SUPER == << "s", "u", "p", "e", "r" >>

SEMI == << "s", "e", "m", "i" >>

BLACKOUT == << "b", "l", "a", "c", "k", "o", "u", "t" >>

TRANSPARENT == << "t", "r", "a", "n", "s", "p", "a", "r", "e", "n", "t" >>

\* self.categories: the folders made by __init__
Categories == {"Blackout", "Super_Blackout", "Semi_Blackout", "Transparent"}

\* mutant of BlackoutRate: semi is tested before super
BlackoutRateSemiFirst(text) ==
    LET text_lower == Lower(text)
    IN  IF Contains(text_lower, SEMI) /\ Contains(text_lower, BLACKOUT)
        THEN "Semi_Blackout"
        ELSE IF Contains(text_lower, SUPER) /\ Contains(text_lower, BLACKOUT)
        THEN "Super_Blackout"
        ELSE IF Contains(text_lower, TRANSPARENT) THEN "Transparent"
        ELSE "Blackout"

\* specs["blackout_rate"]: the default and the if / elif chain on text_lower
BlackoutRate(text) ==
    LET text_lower == Lower(text)
    IN  IF Contains(text_lower, SUPER) /\ Contains(text_lower, BLACKOUT)
        THEN "Super_Blackout"
        ELSE IF Contains(text_lower, SEMI) /\ Contains(text_lower, BLACKOUT)
        THEN "Semi_Blackout"
        ELSE IF Contains(text_lower, TRANSPARENT) THEN "Transparent"
        ELSE "Blackout"

parse_page_specs(p) ==
    [number |-> SeriesSearch(PageWords(p)),
     blackout_rate |-> BlackoutRate(PageText(p.spans))]

(***************************************************************************)
(* find_labels                                                             *)
(***************************************************************************)
\* the labels appended by the walk over the spans, before deduplication
RECURSIVE SpanLabels(_)
SpanLabels(spans) ==
    IF spans = <<>> THEN <<>>
    ELSE LET text == Strip(Head(spans).text)
             c == Centre(Head(spans).bbox)
         IN  (IF IsCode(text)
              THEN << [code |-> text, cx |-> c.cx, cy |-> c.cy] >>
              ELSE <<>>) \o SpanLabels(Tail(spans))

\* mutant of Near: the test on the y axis is forgotten
NearOnX(a, b, tol) == Abs(a.cx - b.cx) < tol

\* abs(a.cx - b.cx) < tol and abs(a.cy - b.cy) < tol
Near(a, b, tol) == Abs(a.cx - b.cx) < tol /\ Abs(a.cy - b.cy) < tol

\* the deduplication loop shared by find_labels (tol 30) and dedupe (tol 50)
RECURSIVE Dedupe(_, _, _)
Dedupe(items, unique, tol) ==
    IF items = <<>> THEN unique
    ELSE Dedupe(Tail(items),
                IF \E k \in 1..Len(unique) : Near(Head(items), unique[k], tol)
                THEN unique
                ELSE Append(unique, Head(items)),
                tol)

find_labels(p) == Dedupe(SpanLabels(p.spans), <<>>, 30)

(***************************************************************************)
(* extract_images                                                          *)
(***************************************************************************)
\* doc.extract_image(xref) returns (does not raise)
Extractable(img) == img.extract_ok

\* mutant of ExtractOutcome: no try/except around the body of the loop
ExtractOutcomeUnguarded(img) == IF Extractable(img) THEN "ok" ELSE "raised"

\* the try ... except: continue around the body of the loop over the images
\* (app.py 381-406 and 114-139): a failing image is skipped
ExtractOutcome(img) == IF Extractable(img) THEN "ok" ELSE "skipped"

\* an exception leaves the loop over the images
ScanRaises(images) ==
    \E i \in 1..Len(images) : ExtractOutcome(images[i]) = "raised"

\* w >= 300 and h >= 300
BigEnough(img) == img.w >= 300 /\ img.h >= 300

\* mutant of PoolOf: the flat range goes up to 1.4
PoolOfWide(img) ==
    IF 8 * img.h <= 10 * img.w /\ 10 * img.w < 14 * img.h THEN "flat"
    ELSE IF 14 * img.h <= 10 * img.w /\ 10 * img.w <= 20 * img.h /\ img.w >= 500
         THEN "curled"
         ELSE "none"

\* the pool chosen from aspect = w / h
PoolOf(img) ==
    IF 8 * img.h <= 10 * img.w /\ 10 * img.w <= 13 * img.h THEN "flat"
    ELSE IF 14 * img.h <= 10 * img.w /\ 10 * img.w <= 20 * img.h /\ img.w >= 500
         THEN "curled"
         ELSE "none"

\* img_data of one placement
ImgData(img, rect) ==
    [xref |-> img.xref, bytes |-> img.bytes, pil_ok |-> img.pil_ok,
     w |-> img.w, h |-> img.h,
     cx |-> Centre(rect).cx, cy |-> Centre(rect).cy]

\* the placements of one image that are appended to the pool
RECURSIVE RectEntries(_, _)
RectEntries(img, rects) ==
    IF rects = <<>> THEN <<>>
    ELSE (IF Head(rects)[4] > 50 /\ Head(rects)[3] > 50
          THEN << ImgData(img, Head(rects)) >>
          ELSE <<>>) \o RectEntries(img, Tail(rects))

\* the loop over page.get_images: what it appends to one pool
RECURSIVE PoolEntries(_, _)
PoolEntries(images, pool) ==
    IF images = <<>> THEN <<>>
    ELSE (IF ExtractOutcome(Head(images)) = "ok" /\ BigEnough(Head(images))
             /\ PoolOf(Head(images)) = pool
          THEN RectEntries(Head(images), Head(images).rects)
          ELSE <<>>) \o PoolEntries(Tail(images), pool)

\* mutant of extract_images: the pools are returned without dedupe
extract_images_raw(p) ==
    [flat |-> PoolEntries(p.images, "flat"),
     curled |-> PoolEntries(p.images, "curled"),
     raised |-> ScanRaises(p.images)]

extract_images(p) ==
    [flat |-> Dedupe(PoolEntries(p.images, "flat"), <<>>, 50),
     curled |-> Dedupe(PoolEntries(p.images, "curled"), <<>>, 50),
     raised |-> ScanRaises(p.images)]

(***************************************************************************)
(* match_labels_to_images                                                  *)
(***************************************************************************)
\* Strategy 1: label below image
BelowRule(dx, dy) == dy > 30 /\ dy < 350 /\ Abs(dx) < 200

\* Strategy 2: label to the right of the image
RightRule(dx, dy) == dx > 30 /\ dx < 350 /\ Abs(dy) < 200

\* the image is a candidate for the label under one of the two strategies
Accepts(label, img) ==
    LET dx == label.cx - img.cx
        dy == label.cy - img.cy
    IN  BelowRule(dx, dy) \/ RightRule(dx, dy)

\* the score of a candidate: the if branch first, the elif branch otherwise
CandScore(label, img) ==
    LET dx == label.cx - img.cx
        dy == label.cy - img.cy
    IN  IF BelowRule(dx, dy) THEN Abs(dx) + Abs(dy - 100)
        ELSE Abs(dy) + Abs(dx - 100)

\* mutant of Better: the first accepted candidate is kept
BetterFirst(score, best) == best.idx = 0

\* mutant of Better: a candidate of equal score replaces the best one
BetterOrEqual(score, best) == best.idx = 0 \/ score <= best.score

\* score < best_score, best_score starting at infinity (idx 0 is None)
Better(score, best) == best.idx = 0 \/ score < best.score

\* the inner loop over enumerate(images), from index i on
RECURSIVE ScanImages(_, _, _, _, _)
ScanImages(label, images, used, i, best) ==
    IF i > Len(images) THEN best
    ELSE ScanImages(label, images, used, i + 1,
            IF i \notin used /\ Accepts(label, images[i])
               /\ Better(CandScore(label, images[i]), best)
            THEN [idx |-> i, score |-> CandScore(label, images[i])]
            ELSE best)

\* mutant of MatchLoop: the matched image is not marked used
RECURSIVE MatchLoopNoUsed(_, _, _, _)
MatchLoopNoUsed(ls, images, used, ms) ==
    IF ls = <<>> THEN ms
    ELSE LET best == ScanImages(Head(ls), images, used, 1,
                                [idx |-> 0, score |-> 0])
         IN  IF best.idx # 0
             THEN MatchLoopNoUsed(Tail(ls), images, used,
                     Append(ms, [code |-> Head(ls).code,
                                 image |-> images[best.idx]]))
             ELSE MatchLoopNoUsed(Tail(ls), images, used, ms)

\* the outer loop over the labels
RECURSIVE MatchLoop(_, _, _, _)
MatchLoop(ls, images, used, ms) ==
    IF ls = <<>> THEN ms
    ELSE LET best == ScanImages(Head(ls), images, used, 1,
                                [idx |-> 0, score |-> 0])
         IN  IF best.idx # 0
             THEN MatchLoop(Tail(ls), images, used \cup {best.idx},
                     Append(ms, [code |-> Head(ls).code,
                                 image |-> images[best.idx]]))
             ELSE MatchLoop(Tail(ls), images, used, ms)

match_labels_to_images(ls, images) == MatchLoop(ls, images, {}, <<>>)

\* {m["code"] for m in matches}
CodesOf(ms) == {ms[i].code : i \in 1..Len(ms)}

\* app.py lines 508-510: the flat pass
FlatPass(ls, flat) ==
    IF flat # <<>> THEN match_labels_to_images(ls, flat) ELSE <<>>

\* mutant of Unmatched: every label is retried
UnmatchedAll(ls, ms) == ls

\* app.py lines 513-514: the labels whose code got no flat match
Unmatched(ls, ms) == SelectSeq(ls, LAMBDA l : l.code \notin CodesOf(ms))

\* app.py lines 515-516: the curled pass, appended to the flat matches
CurledPass(ls, ms, curled) ==
    IF Unmatched(ls, ms) # <<>> /\ curled # <<>>
    THEN ms \o match_labels_to_images(Unmatched(ls, ms), curled)
    ELSE ms

\* mutant of SeriesFilter: the filter is not applied
SeriesFilterOff(ms, series) == ms

\* app.py lines 519-521: the series filter
SeriesFilter(ms, series) ==
    IF series # <<>>
    THEN SelectSeq(ms, LAMBDA m : StartsWith(m.code, series))
    ELSE ms

(***************************************************************************)
(* fix_missing_swatch                                                      *)
(***************************************************************************)
\* the position of the label, <<>> for None: every span whose stripped text
\* is the code overwrites label_pos, so the last one stands
LabelPos(p, code) ==
    LET hits == {i \in 1..Len(p.spans) : Strip(p.spans[i].text) = code}
    IN  IF hits = {} THEN <<>>
        ELSE << Centre(p.spans[CHOOSE i \in hits : \A j \in hits : j <= i].bbox) >>

\* every placement of one image, no position filter
FixRects(img) == [k \in 1..Len(img.rects) |-> ImgData(img, img.rects[k])]

\* the placements examined by the scan, in the order of the loops
RECURSIVE FixPlacements(_)
FixPlacements(images) ==
    IF images = <<>> THEN <<>>
    ELSE (IF ExtractOutcome(Head(images)) = "ok" /\ BigEnough(Head(images))
          THEN FixRects(Head(images))
          ELSE <<>>) \o FixPlacements(Tail(images))

\* mutant of FixAccepts: the window of the primary below rule
FixAcceptsStrict(pos, img) ==
    LET dx == Abs(img.cx - pos.cx)
        dy == pos.cy - img.cy
    IN  dy > 30 /\ dy < 350 /\ dx < 200

\* dy > 20 and dy < 400 and dx < 250, with dx = abs(img_cx - label_x)
FixAccepts(pos, img) ==
    LET dx == Abs(img.cx - pos.cx)
        dy == pos.cy - img.cy
    IN  dy > 20 /\ dy < 400 /\ dx < 250

\* score = dx + abs(dy - 120)
FixScore(pos, img) == Abs(img.cx - pos.cx) + Abs((pos.cy - img.cy) - 120)

RECURSIVE FixScan(_, _, _, _)
FixScan(pos, cands, i, best) ==
    IF i > Len(cands) THEN best
    ELSE FixScan(pos, cands, i + 1,
            IF FixAccepts(pos, cands[i]) /\ Better(FixScore(pos, cands[i]), best)
            THEN [idx |-> i, score |-> FixScore(pos, cands[i])]
            ELSE best)

\* best_image of fix_missing_swatch: <<>> for None, else << the placement >>
FixBest(p, code) ==
    IF LabelPos(p, code) = <<>> THEN <<>>
    ELSE LET cands == FixPlacements(p.images)
             best == FixScan(LabelPos(p, code)[1], cands, 1,
                             [idx |-> 0, score |-> 0])
         IN  IF best.idx = 0 THEN <<>> ELSE << cands[best.idx] >>

(***************************************************************************)
(* The records written by process_page and validate_phase9_with_fix.       *)
(***************************************************************************)
\* Image.open(io.BytesIO(bytes)) returns (does not raise)
Decodable(img) == img.pil_ok

\* mutant of SpecRecord: the auto-fix record has no auto_fixed key
SpecRecordUnflagged(code, img, sp, auto) ==
    [code |-> code, number |-> sp.number,
     resolution |-> <<img.w, img.h>>, auto_fixed |-> FALSE]

\* fabric_spec (app.py 540-552) and the auto-fix record (app.py 324-337);
\* a record without the auto_fixed key carries auto_fixed = FALSE
SpecRecord(code, img, sp, auto) ==
    [code |-> code, number |-> sp.number,
     resolution |-> <<img.w, img.h>>, auto_fixed |-> auto]

\* one pil_img.save call: the file named after the code, and the placement
\* whose bytes were written to it
SavedFile(code, img, sp, auto) ==
    [code |-> code, image |-> img, folder |-> sp.blackout_rate, auto_fixed |-> auto]

\* the number of matches saved before Image.open raises (all, if none does)
SavedCount(ms) ==
    LET bad == {i \in 1..Len(ms) : ~Decodable(ms[i].image)}
    IN  IF bad = {} THEN Len(ms)
        ELSE (CHOOSE i \in bad : \A j \in bad : i <= j) - 1

\* the entry self.log appends; page is the page number in the name of a
\* per-page test, 0 for the other tests
LogEntry(test_num, pg, status, fix) ==
    [test_num |-> test_num,
     page |-> pg,
     status |-> IF status THEN "PASS" ELSE "FAIL",
     fix_applied |-> fix]

\* mutant of ExpectedCodes: the codes of all the labels, series or not
ExpectedCodesUnfiltered(ls, series) == [i \in 1..Len(ls) |-> ls[i].code]

\* app.py line 557
ExpectedCodes(ls, series) ==
    LET keep == SelectSeq(ls, LAMBDA l : series # <<>> /\ StartsWith(l.code, series))
    IN  [i \in 1..Len(keep) |-> keep[i].code]

\* [r["code"] for r in results]
ResultCodes(rs) == [i \in 1..Len(rs) |-> rs[i].code]

SeqSet(s) == {s[i] : i \in 1..Len(s)}

\* mutant of Missing: the extracted codes are not subtracted
MissingAll(expected, extracted) == SeqSet(expected)

\* app.py line 312
Missing(expected, extracted) == SeqSet(expected) \ SeqSet(extracted)

\* the orders in which a set can be iterated
Orders(S) ==
    { s \in [1..Cardinality(S) -> S] :
        \A i, j \in 1..Cardinality(S) : i # j => s[i] # s[j] }

\* the loop of app.py 320-337 over the missing codes in the given order:
\* the fixes appended, the number of codes attempted and whether
\* fix_missing_swatch raised on an undecodable image
RECURSIVE FixLoop(_, _, _, _)
FixLoop(p, order, i, acc) ==
    IF i > Len(order) THEN acc
    ELSE LET best == FixBest(p, order[i])
         IN  IF LabelPos(p, order[i]) # <<>> /\ ScanRaises(p.images)
             THEN [acc EXCEPT !.attempts = i, !.raised = "extract_image"]
             ELSE IF best = <<>>
             THEN FixLoop(p, order, i + 1, [acc EXCEPT !.attempts = i])
             ELSE IF ~Decodable(best[1])
             THEN [acc EXCEPT !.attempts = i, !.raised = "Image.open"]
             ELSE FixLoop(p, order, i + 1,
                     [acc EXCEPT !.attempts = i,
                                 !.fixes = Append(@, [code |-> order[i],
                                                      image |-> best[1]])])

RunFixes(p, order) ==
    FixLoop(p, order, 1, [fixes |-> <<>>, attempts |-> 0, raised |-> ""])

(***************************************************************************)
(* process_page, step by step.                                             *)
(***************************************************************************)
\* the fields set by __init__ (app.py 32-45), the locals of process_page
\* still empty
Constructed ==
    /\ exception = ""
    /\ specs = [number |-> <<>>, blackout_rate |-> "Blackout"]
    /\ labels = <<>>
    /\ flat_swatches = <<>>
    /\ curled_images = <<>>
    /\ flat_matches = <<>>
    /\ primary_matches = <<>>
    /\ matches = <<>>
    /\ results = <<>>
    /\ expected_codes = <<>>
    /\ fix_order = <<>>
    /\ fixed = <<>>
    /\ saved_files = <<>>
    /\ technical_specs = <<>>
    /\ extracted_codes = {}
    /\ validation_log = <<>>
    /\ validations_passed = 0
    /\ fixes_applied = 0
    /\ page_counts = <<>>
    /\ doc_open = TRUE
    /\ closes = 0
    /\ written = {}

\* the server has received no request
NoRequests ==
    /\ now = 0
    /\ requests = <<>>
    /\ upload_folder = {}
    /\ output_folder = {}

\* parse_pricing_pdf has not been called
NoPricing ==
    /\ lines = <<>>
    /\ line_index = 0
    /\ current_codes = <<>>
    /\ current_category = ""
    /\ cordless_price = 0
    /\ bead_chain_price = 0
    /\ fabric_data = <<>>

\* no catalog has been read
NoCatalog ==
    /\ extractor = ""
    /\ extracted_images = <<>>
    /\ image_files = <<>>
    /\ calls = <<>>

\* process_page(1) on a document of one page
Init ==
    /\ page \in Pages
    /\ doc = << page >>
    /\ page_num = 1
    /\ pc = "start"
    /\ rpc = "process_page"
    /\ Constructed
    /\ NoRequests
    /\ NoPricing
    /\ NoCatalog

\* app.py 501-505
ExtractPage ==
    /\ pc = "start"
    /\ specs' = parse_page_specs(page)
    /\ labels' = find_labels(page)
    /\ flat_swatches' = extract_images(page).flat
    /\ curled_images' = extract_images(page).curled
    /\ pc' = IF extract_images(page).raised THEN "raised" ELSE "extracted"
    /\ exception' = IF extract_images(page).raised THEN "extract_image" ELSE ""
    /\ UNCHANGED <<page, flat_matches, primary_matches, matches, results,
                   expected_codes, fix_order, fixed, saved_files,
                   technical_specs, extracted_codes, validation_log,
                   validations_passed, fixes_applied, page_counts>>
    /\ UNCHANGED <<runvars, webvars, pricingvars, catalogvars>>

\* app.py 507-521
MatchPage ==
    /\ pc = "extracted"
    /\ flat_matches' = FlatPass(labels, flat_swatches)
    /\ primary_matches' = CurledPass(labels, flat_matches', curled_images)
    /\ matches' = SeriesFilter(primary_matches', specs.number)
    /\ pc' = "matched"
    /\ UNCHANGED <<page, exception, specs, labels, flat_swatches, curled_images, results,
                   expected_codes, fix_order, fixed, saved_files,
                   technical_specs, extracted_codes, validation_log,
                   validations_passed, fixes_applied, page_counts>>
    /\ UNCHANGED <<runvars, webvars, pricingvars, catalogvars>>

\* app.py 523-554: the matches are saved in order; an image that PIL cannot
\* open raises out of process_page after the matches before it were saved
SaveMatches ==
    /\ pc = "matched"
    /\ LET n == SavedCount(matches)
           recs == [i \in 1..n |->
                      SpecRecord(matches[i].code, matches[i].image, specs, FALSE)]
       IN  /\ results' = recs
           /\ technical_specs' = technical_specs \o recs
           /\ saved_files' = saved_files \o
                  [i \in 1..n |-> SavedFile(matches[i].code, matches[i].image, specs, FALSE)]
           /\ extracted_codes' = extracted_codes \cup {matches[i].code : i \in 1..n}
           /\ pc' = IF n = Len(matches) THEN "saved" ELSE "raised"
           /\ exception' = IF n = Len(matches) THEN "" ELSE "Image.open"
    /\ UNCHANGED <<page, specs, labels, flat_swatches, curled_images,
                   flat_matches, primary_matches, matches, expected_codes,
                   fix_order, fixed, validation_log, validations_passed,
                   fixes_applied, page_counts>>
    /\ UNCHANGED <<runvars, webvars, pricingvars, catalogvars>>

\* app.py 556-562 with validate_phase9_with_fix (308-347)
ValidatePhase9 ==
    /\ pc = "saved"
    /\ LET expected == ExpectedCodes(labels, specs.number)
           missing == Missing(expected, ResultCodes(results))
       IN  \E order \in Orders(missing) :
             LET run == RunFixes(page, order)
                 recs == [i \in 1..Len(run.fixes) |->
                            SpecRecord(run.fixes[i].code, run.fixes[i].image,
                                       specs, TRUE)]
             IN  /\ expected_codes' = expected
                 /\ fix_order' = SubSeq(order, 1, run.attempts)
                 /\ technical_specs' = technical_specs \o recs
                 /\ saved_files' = saved_files \o
                        [i \in 1..Len(run.fixes) |->
                           SavedFile(run.fixes[i].code, run.fixes[i].image,
                                     specs, TRUE)]
                 /\ validation_log' =
                        IF missing = {}
                        THEN Append(validation_log, LogEntry(35, page_num, TRUE, FALSE))
                        ELSE IF run.raised = "" /\ run.fixes # <<>>
                        THEN validation_log \o << LogEntry(35, page_num, FALSE, TRUE),
                                                  LogEntry(35, page_num, TRUE, TRUE) >>
                        ELSE Append(validation_log, LogEntry(35, page_num, FALSE, TRUE))
                 /\ validations_passed' =
                        IF missing = {} \/ (run.raised = "" /\ run.fixes # <<>>)
                        THEN validations_passed + 1 ELSE validations_passed
                 /\ fixes_applied' =
                        IF missing = {} THEN fixes_applied
                        ELSE IF run.raised = "" /\ run.fixes # <<>>
                        THEN fixes_applied + 2 ELSE fixes_applied + 1
                 /\ fixed' = IF run.raised # "" THEN <<>> ELSE recs
                 /\ results' = IF run.raised # "" THEN results ELSE results \o recs
                 /\ pc' = IF run.raised # "" THEN "raised" ELSE "validated"
                 /\ exception' = run.raised
    /\ UNCHANGED <<page, specs, labels, flat_swatches, curled_images,
                   flat_matches, primary_matches, matches, extracted_codes,
                   page_counts>>
    /\ UNCHANGED <<runvars, webvars, pricingvars, catalogvars>>

\* app.py 564-574
TrackPageCount ==
    /\ pc = "validated"
    /\ page_counts' = Append(page_counts,
            [page |-> page_num,
             series |-> specs.number,
             expected |-> Len(expected_codes),
             extracted |-> Len(results),
             codes |-> ResultCodes(results),
             fixed |-> Len(fixed)])
    /\ pc' = "done"
    /\ UNCHANGED <<page, exception, specs, labels, flat_swatches, curled_images,
                   flat_matches, primary_matches, matches, results,
                   expected_codes, fix_order, fixed, saved_files,
                   technical_specs, extracted_codes, validation_log,
                   validations_passed, fixes_applied>>
    /\ UNCHANGED <<runvars, webvars, pricingvars, catalogvars>>

Next ==
    \/ ExtractPage
    \/ MatchPage
    \/ SaveMatches
    \/ ValidatePhase9
    \/ TrackPageCount

Spec == Init /\ [][Next]_vars

(***************************************************************************)
(* parse_page_specs on pages that carry category words.                    *)
(***************************************************************************)
\* the number of category words on a page
MaxWords == 3

\* the words a page heading is built from
CategoryWords ==
    { << "S", "u", "p", "e", "r" >>,
      << "S", "E", "M", "I" >>,
      << "B", "l", "a", "c", "k", "o", "u", "t" >>,
      << "T", "r", "a", "n", "s", "p", "a", "r", "e", "n", "t" >>,
      << "R", "o", "l", "l", "e", "r" >> }

\* a heading of category words over one label and its flat image
CategoryPages ==
    { [spans |-> [i \in 1..Len(ws) |-> Span(ws[i], 200, 20 * i)]
                    \o << Span(S82046, 200, 100), Span(S82046 \o <<"A">>, 100, 300) >>,
       images |-> << Image(11, TRUE, TRUE, "b1", 600, 600, << ImageRect(100, 200) >>) >>] :
        ws \in DistinctSeqs(CategoryWords, MaxWords) }

\* process_page(1) on a document of one page with category words
InitCategory ==
    /\ page \in CategoryPages
    /\ doc = << page >>
    /\ page_num = 1
    /\ pc = "start"
    /\ rpc = "process_page"
    /\ Constructed
    /\ NoRequests
    /\ NoPricing
    /\ NoCatalog

SpecCategory == InitCategory /\ [][Next]_vars

(***************************************************************************)
(* run(): the documents.                                                   *)
(*                                                                         *)
(* A page of a document carries, besides its spans and images, the number  *)
(* of further characters of running text on it (prose); that text holds no *)
(* digit, so it adds to the length of get_text() and to nothing else.      *)
(***************************************************************************)
\* range(3, min(len(self.doc) + 1, 21)): the first page and the stop value
FirstPage == 3

PageStop == 21

\* len(text) > 100 in test 2
MinTextLength == 100

\* the longest document
MaxPages == 21

BlankPage == [spans |-> <<>>, images |-> <<>>, prose |-> 0]

\* a heading, one label and its flat image above it, in a page of text
PlainPage ==
    [spans |-> << Span(S82046, 200, 60), Span(S82046 \o <<"A">>, 100, 300) >>,
     images |-> << Image(11, TRUE, TRUE, "b1", 600, 600, << ImageRect(100, 200) >>) >>,
     prose |-> 150]

\* a label whose only image is in neither pool: recovered by the auto-fix
FixPage ==
    [spans |-> << Span(S82046, 200, 60), Span(S82046 \o <<"B">>, 300, 300) >>,
     images |-> << Image(15, TRUE, TRUE, "b5", 405, 300, << ImageRect(100, 200) >>) >>,
     prose |-> 0]

\* a label matched to an image that PIL cannot open
BadImagePage ==
    [spans |-> << Span(S82046, 200, 60), Span(S82046 \o <<"A">>, 100, 300) >>,
     images |-> << Image(17, TRUE, FALSE, "b7", 600, 600, << ImageRect(130, 220) >>) >>,
     prose |-> 0]

\* two labels and one image: a primary match and an auto-fixed one
PrimaryAndFixPage ==
    [spans |-> << Span(S82046, 200, 60), Span(S82046 \o <<"A">>, 100, 300),
                  Span(S82046 \o <<"B">>, 300, 300) >>,
     images |-> << Image(11, TRUE, TRUE, "b1", 600, 600, << ImageRect(100, 200) >>) >>,
     prose |-> 150]

\* a label on a page without heading and without image
LabelOnlyPage ==
    [spans |-> << Span(S82046 \o <<"A">>, 100, 300) >>, images |-> <<>>, prose |-> 0]

\* a label and its flat image above it on a page without heading
UnheadedPage ==
    [spans |-> << Span(S82046 \o <<"A">>, 100, 300) >>,
     images |-> << Image(11, TRUE, TRUE, "b1", 600, 600, << ImageRect(100, 200) >>) >>,
     prose |-> 0]

\* a heading and a label on a page without image: the code stays missing
MissingPage ==
    [spans |-> << Span(S82046, 200, 60), Span(S82046 \o <<"B">>, 300, 300) >>,
     images |-> <<>>, prose |-> 0]

RunPages == {BlankPage, PlainPage, FixPage, BadImagePage, PrimaryAndFixPage,
             LabelOnlyPage, UnheadedPage, MissingPage}

\* the documents: n >= 1 pages alike, but for page 3 or page 4
Docs ==
    { [i \in 1..n |-> IF i = k THEN b ELSE a] :
        n \in 1..MaxPages, a \in RunPages, b \in RunPages, k \in {FirstPage, FirstPage + 1} }

(***************************************************************************)
(* run(): the phase validations.                                           *)
(***************************************************************************)
RECURSIVE SpanChars(_)
\* the characters the spans add to get_text(): each text and its newline
SpanChars(spans) ==
    IF spans = <<>> THEN 0
    ELSE Len(Head(spans).text) + 1 + SpanChars(Tail(spans))

\* len(page.get_text())
TextLength(p) == p.prose + SpanChars(p.spans)

Upper == {"A", "B", "C", "D", "E", "F", "G", "H", "I", "J", "K", "L", "M",
          "N", "O", "P", "Q", "R", "S", "T", "U", "V", "W", "X", "Y", "Z"}

\* a word that the pattern \b(8[012]\d{3}[A-Z])\b matches
IsFabricCode(word) ==
    /\ Len(word) = 6
    /\ IsSeries(SubSeq(word, 1, 5))
    /\ word[6] \in Upper

\* self.doc[2] if len(self.doc) > 2, as a sequence of at most one page
ThirdPage(d) == IF Len(d) > 2 THEN << d[3] >> ELSE <<>>

\* test 2: has_text
HasText(d) == ThirdPage(d) # <<>> /\ TextLength(ThirdPage(d)[1]) > MinTextLength

\* test 3: has_images
HasImages(d) == ThirdPage(d) # <<>> /\ Len(ThirdPage(d)[1].images) > 0

\* test 4: has_codes
HasCodes(d) ==
    /\ ThirdPage(d) # <<>>
    /\ \E i \in 1..Len(PageWords(ThirdPage(d)[1])) :
          IsFabricCode(PageWords(ThirdPage(d)[1])[i])

\* the entries of validate_phase1 on an open document
Phase1Entries(d) ==
    << LogEntry(1, 0, TRUE, FALSE),
       IF HasText(d) THEN LogEntry(2, 0, TRUE, FALSE) ELSE LogEntry(2, 0, FALSE, TRUE),
       LogEntry(3, 0, HasImages(d), FALSE),
       LogEntry(4, 0, HasCodes(d), FALSE) >>

\* mutant of Phase2To7Entries: the tests pass when codes were detected
Phase2To7Checked == [i \in 1..25 |-> LogEntry(4 + i, 0, HasCodes(doc), FALSE)]

\* the entries of validate_phase2 .. validate_phase7: tests 5 to 29
Phase2To7Entries == [i \in 1..25 |-> LogEntry(4 + i, 0, TRUE, FALSE)]

\* the entries of validate_phase8: tests 30 to 34
Phase8Entries == [i \in 1..5 |-> LogEntry(29 + i, 0, TRUE, FALSE)]

\* the number of entries that self.log counted as passed
PassedIn(entries) == Cardinality({i \in 1..Len(entries) : entries[i].status = "PASS"})

\* the number of entries that self.log counted as fixes
FixesIn(entries) == Cardinality({i \in 1..Len(entries) : entries[i].fix_applied})

\* sum(pc[field] for pc in self.page_counts)
RECURSIVE Total(_, _)
Total(counts, field) ==
    IF counts = <<>> THEN 0
    ELSE Head(counts)[field] + Total(Tail(counts), field)

\* mutant of LastPage: the loop goes to the last page of the document
LastPageOfDoc(d) == Len(d)

\* the last page of the loop: min(len(self.doc) + 1, 21) - 1
LastPage(d) == (IF Len(d) + 1 < PageStop THEN Len(d) + 1 ELSE PageStop) - 1

\* csv.DictWriter with the keys of the first record as field names raises
\* ValueError on a record with a key outside them: auto_fixed, when the
\* first record is not an auto-fixed one
CsvRaises(tech) ==
    /\ tech # <<>>
    /\ ~tech[1].auto_fixed
    /\ \E i \in 1..Len(tech) : tech[i].auto_fixed

(***************************************************************************)
(* run(), step by step.                                                    *)
(***************************************************************************)
\* an extractor constructed on a document; run() has not started
InitRun ==
    /\ doc \in Docs
    /\ page = <<>>
    /\ page_num = 0
    /\ pc = "idle"
    /\ rpc = "start"
    /\ Constructed
    /\ NoRequests
    /\ NoPricing
    /\ NoCatalog

\* app.py 579-585: validate_phase1 .. validate_phase7
RunValidations ==
    /\ rpc = "start"
    /\ LET entries == Phase1Entries(doc) \o Phase2To7Entries
       IN  /\ validation_log' = validation_log \o entries
           /\ validations_passed' = validations_passed + PassedIn(entries)
           /\ fixes_applied' = fixes_applied + FixesIn(entries)
    /\ page_num' = FirstPage - 1
    /\ rpc' = "pages"
    /\ UNCHANGED <<page, pc, exception, specs, labels, flat_swatches, curled_images,
                   flat_matches, primary_matches, matches, results,
                   expected_codes, fix_order, fixed, saved_files,
                   technical_specs, extracted_codes, page_counts,
                   doc, doc_open, closes, written, webvars, pricingvars, catalogvars>>

\* app.py 589-590 and 501: the next iteration of the page loop calls
\* process_page, whose locals are fresh
BeginPage ==
    /\ rpc = "pages"
    /\ pc \in {"idle", "done"}
    /\ page_num < LastPage(doc)
    /\ page_num' = page_num + 1
    /\ page' = doc[page_num']
    /\ pc' = "start"
    /\ specs' = [number |-> <<>>, blackout_rate |-> "Blackout"]
    /\ labels' = <<>>
    /\ flat_swatches' = <<>>
    /\ curled_images' = <<>>
    /\ flat_matches' = <<>>
    /\ primary_matches' = <<>>
    /\ matches' = <<>>
    /\ results' = <<>>
    /\ expected_codes' = <<>>
    /\ fix_order' = <<>>
    /\ fixed' = <<>>
    /\ UNCHANGED <<exception, saved_files, technical_specs, extracted_codes,
                   validation_log, validations_passed, fixes_applied, page_counts,
                   doc, rpc, doc_open, closes, written, webvars,
                   pricingvars, catalogvars>>

\* app.py 593-606: the loop is over; the totals, validate_phase8, tests 36, 37
RunFinal ==
    /\ rpc = "pages"
    /\ pc \in {"idle", "done"}
    /\ page_num >= LastPage(doc)
    /\ LET total_expected == Total(page_counts, "expected")
           total_extracted == Total(page_counts, "extracted")
           entries == Phase8Entries \o
                      << LogEntry(36, 0, TRUE, FALSE),
                         LogEntry(37, 0, total_extracted >= total_expected, FALSE) >>
       IN  /\ validation_log' = validation_log \o entries
           /\ validations_passed' = validations_passed + PassedIn(entries)
           /\ fixes_applied' = fixes_applied + FixesIn(entries)
    /\ rpc' = "logged"
    /\ UNCHANGED <<page, pc, exception, specs, labels, flat_swatches, curled_images,
                   flat_matches, primary_matches, matches, results,
                   expected_codes, fix_order, fixed, saved_files,
                   technical_specs, extracted_codes, page_counts,
                   doc, page_num, doc_open, closes, written, webvars,
                   pricingvars, catalogvars>>

\* mutant of RunWrite: the document is closed before the files are written
RunWriteClosing ==
    /\ rpc = "logged"
    /\ written' = {"technical_specifications.json", "validation_log.json",
                   "technical_specifications.csv"}
    /\ rpc' = IF CsvRaises(technical_specs) THEN "raised" ELSE "written"
    /\ exception' = IF CsvRaises(technical_specs) THEN "writerows" ELSE exception
    /\ doc_open' = FALSE
    /\ closes' = closes + 1
    /\ UNCHANGED <<page, pc, specs, labels, flat_swatches, curled_images,
                   flat_matches, primary_matches, matches, results,
                   expected_codes, fix_order, fixed, saved_files,
                   technical_specs, extracted_codes, validation_log,
                   validations_passed, fixes_applied, page_counts,
                   doc, page_num, webvars, pricingvars, catalogvars>>

\* app.py 608-621: the three output files; the csv file is created before
\* writerows raises
RunWrite ==
    /\ rpc = "logged"
    /\ written' = {"technical_specifications.json", "validation_log.json",
                   "technical_specifications.csv"}
    /\ rpc' = IF CsvRaises(technical_specs) THEN "raised" ELSE "written"
    /\ exception' = IF CsvRaises(technical_specs) THEN "writerows" ELSE exception
    /\ UNCHANGED <<page, pc, specs, labels, flat_swatches, curled_images,
                   flat_matches, primary_matches, matches, results,
                   expected_codes, fix_order, fixed, saved_files,
                   technical_specs, extracted_codes, validation_log,
                   validations_passed, fixes_applied, page_counts,
                   doc, page_num, doc_open, closes, webvars, pricingvars, catalogvars>>

\* app.py 623-633: self.doc.close() and the return
RunClose ==
    /\ rpc = "written"
    /\ doc_open' = FALSE
    /\ closes' = closes + 1
    /\ rpc' = "returned"
    /\ UNCHANGED <<pagevars, doc, page_num, written, webvars, pricingvars, catalogvars>>

NextRun ==
    \/ RunValidations
    \/ BeginPage
    \/ ExtractPage
    \/ MatchPage
    \/ SaveMatches
    \/ ValidatePhase9
    \/ TrackPageCount
    \/ RunFinal
    \/ RunWrite
    \/ RunClose

SpecRun == InitRun /\ [][NextRun]_vars

\* an exception has left run()
RunRaised == pc = "raised" \/ rpc = "raised"

\* run() has returned its result
RunReturned == rpc = "returned"

(***************************************************************************)
(* The /upload handler (upload_pdf).                                       *)
(*                                                                         *)
(* The server handles requests in threads, so the handler is cut at the    *)
(* points where another request can run in between: after the upload was   *)
(* saved and the output directory made, after the extraction and the       *)
(* archive, and after the cleanup.  The uploaded document is reduced to    *)
(* whether FabricSwatchExtractor(...).run() returns on it or raises.  A    *)
(* folder is the set of its entries, each with the request that wrote it.  *)
(***************************************************************************)
\* the number of requests the server receives
MaxRequests == 2

\* the last instant of the clock
MaxClock == 3

\* the instants of the clock in one second
TicksPerSecond == 2

\* the file names of the uploads
FileNames == {"a.pdf", "b.pdf"}

\* datetime.now().strftime("%Y%m%d_%H%M%S"): the instant cut to its second
Timestamp(t) == t \div TicksPerSecond

\* os.path.join(UPLOAD_FOLDER, file.filename)
PdfPath(filename) == << "upload", filename >>

\* os.path.join(OUTPUT_FOLDER, f"extraction_{timestamp}")
OutputDir(ts) == << "extraction", ts >>

\* os.path.join(OUTPUT_FOLDER, f"FabricSwatches_{timestamp}.zip")
ZipPath(ts) == << "FabricSwatches", ts >>

\* the entries of a folder at a path
At(folder, path) == {e \in folder : e.path = path}

\* a file written at a path replaces the one that was there
Overwrite(folder, entry) == (folder \ At(folder, entry.path)) \cup {entry}

InitUpload ==
    /\ page = <<>>
    /\ doc = <<>>
    /\ page_num = 0
    /\ pc = "idle"
    /\ rpc = "start"
    /\ Constructed
    /\ NoRequests
    /\ NoPricing
    /\ NoCatalog

\* app.py 643-648: a request without a file, or with an empty file name
UploadReject ==
    /\ Len(requests) < MaxRequests
    /\ requests' = Append(requests,
          [state |-> "done", filename |-> "", pdf_path |-> <<>>, timestamp |-> 0,
           output_dir |-> <<>>, zip_path |-> <<>>, status |-> 400])
    /\ UNCHANGED <<pagevars, runvars, pricingvars, catalogvars,
                 now, upload_folder, output_folder>>

\* app.py 650-657: the upload is saved under its own name, the output
\* directory is named after the second of the clock and made if absent
UploadSave ==
    /\ Len(requests) < MaxRequests
    /\ \E name \in FileNames, ok \in BOOLEAN :
         LET r == Len(requests) + 1
             ts == Timestamp(now)
         IN  /\ requests' = Append(requests,
                   [state |-> "saved", filename |-> name, pdf_path |-> PdfPath(name),
                    timestamp |-> ts, output_dir |-> OutputDir(ts),
                    zip_path |-> <<>>, status |-> 0])
             /\ upload_folder' = Overwrite(upload_folder,
                   [path |-> PdfPath(name), by |-> r, ok |-> ok])
             /\ output_folder' = output_folder \cup
                   {[path |-> OutputDir(ts), by |-> r, kind |-> "makedirs"]}
    /\ UNCHANGED <<pagevars, runvars, pricingvars, catalogvars, now>>

\* app.py 659-680: the extraction reads the file at pdf_path and writes into
\* output_dir; when it returns the archive is written and the answer is 200,
\* when it raises (or the file is gone) the answer is 500
UploadExtract(r) ==
    /\ requests[r].state = "saved"
    /\ LET found == At(upload_folder, requests[r].pdf_path)
           ok == found # {} /\ \A e \in found : e.ok
           zip == ZipPath(requests[r].timestamp)
       IN  /\ requests' = [requests EXCEPT
                   ![r].state = "ran",
                   ![r].zip_path = IF ok THEN zip ELSE <<>>,
                   ![r].status = IF ok THEN 200 ELSE 500]
           /\ output_folder' =
                 IF ok
                 THEN Overwrite(output_folder \cup
                         {[path |-> requests[r].output_dir, by |-> r, kind |-> "run"]},
                         [path |-> zip, by |-> r, kind |-> "zip"])
                 ELSE output_folder
    /\ UNCHANGED <<pagevars, runvars, pricingvars, catalogvars, now, upload_folder>>

\* app.py 682-685: finally, the file at pdf_path is removed if it exists
UploadCleanup(r) ==
    /\ requests[r].state = "ran"
    /\ requests' = [requests EXCEPT ![r].state = "done"]
    /\ upload_folder' = upload_folder \ At(upload_folder, requests[r].pdf_path)
    /\ UNCHANGED <<pagevars, runvars, pricingvars, catalogvars, now, output_folder>>

\* the clock of the server advances
Tick ==
    /\ now < MaxClock
    /\ now' = now + 1
    /\ UNCHANGED <<pagevars, runvars, pricingvars, catalogvars,
                 requests, upload_folder, output_folder>>

NextUpload ==
    \/ UploadReject
    \/ UploadSave
    \/ \E r \in 1..Len(requests) : UploadExtract(r)
    \/ \E r \in 1..Len(requests) : UploadCleanup(r)
    \/ Tick

SpecUpload == InitUpload /\ [][NextUpload]_vars

(***************************************************************************)
(* parse_pricing_pdf of the zebra extractors: the lines of the quotation    *)
(* are read one by one, the accumulators are set before the loop over the  *)
(* pages (complete_zebra_extractor.py 30-33), so the pages are one run of   *)
(* lines.  Prices are kept in hundredths; the prices of the model have at   *)
(* most two decimals.                                                      *)
(***************************************************************************)
\* the longest pricing document, in lines
MaxLines == 4

\* the lines a pricing document is made of
PricingLines ==
    LET
        LineCode == << "8", "3", "0", "0", "3", "A" >>
        LineTwoCodes == << "8", "3", "0", "0", "3", "B", " ", "8", "3", "0",
              "4", "6", "A" >>
        LinePrice == << "$", "1", "2", ".", "5", "0" >>
        LinePadded == << " ", "$", "9", " " >>
        LineZero == << "$", "0", ".", "0", "0" >>
        LineSuper == << "S", "h", "a", "d", "i", "n", "g", " ", "e", "f",
              "f", "e", "c", "t", ":", " ", "S", "u", "p", "e", "r", "-",
              "B", "l", "a", "c", "k", "o", "u", "t" >>
        LineBlackout == << "s", "h", "a", "d", "i", "n", "g", " ", "e", "f",
              "f", "e", "c", "t", ":", " ", "b", "l", "a", "c", "k", "o",
              "u", "t" >>
    IN  {LineCode, LineTwoCodes, LinePrice, LinePadded, LineZero, LineSuper,
         LineBlackout}

\* the pricing documents
PricingDocs == UNION { [1..n -> PricingLines] : n \in 0..MaxLines }

\* 830\d{2}[A-Z] matches at the start of s
CodeAt(s) ==
    /\ Len(s) >= 6
    /\ s[1] = "8" /\ s[2] = "3" /\ s[3] = "0"
    /\ s[4] \in Digit /\ s[5] \in Digit
    /\ s[6] \in Upper

\* re.findall(r'(830\d{2}[A-Z])', line): the matches from left to right,
\* none overlapping
RECURSIVE FindCodes(_)
FindCodes(s) ==
    IF Len(s) < 6 THEN <<>>
    ELSE IF CodeAt(s) THEN << SubSeq(s, 1, 6) >> \o FindCodes(SubSeq(s, 7, Len(s)))
    ELSE FindCodes(Tail(s))

\* re.match(r'^\$(\d+\.?\d*)$', line)
IsPriceLine(s) ==
    /\ Len(s) >= 2
    /\ s[1] = "$"
    /\ s[2] \in Digit
    /\ \A k \in 2..Len(s) : s[k] \in Digit \cup {"."}
    /\ Cardinality({k \in 2..Len(s) : s[k] = "."}) <= 1

DigitValue(c) ==
    CHOOSE n \in 0..9 : << "0", "1", "2", "3", "4", "5", "6", "7", "8", "9" >>[n + 1] = c

\* the number written by a string of digits
RECURSIVE Number(_)
Number(ds) ==
    IF ds = <<>> THEN 0
    ELSE 10 * Number(SubSeq(ds, 1, Len(ds) - 1)) + DigitValue(ds[Len(ds)])

\* float(price_match.group(1)), in hundredths
PriceValue(s) ==
    LET r == Tail(s)
        dots == {k \in 1..Len(r) : r[k] = "."}
        dot == IF dots = {} THEN Len(r) + 1 ELSE CHOOSE k \in dots : TRUE
        whole == SubSeq(r, 1, dot - 1)
        frac == SubSeq(r, dot + 1, Len(r))
    IN  100 * Number(whole)
          + (IF Len(frac) = 0 THEN 0
             ELSE IF Len(frac) = 1 THEN 10 * Number(frac)
             ELSE Number(SubSeq(frac, 1, 2)))

\* the category after a line: a shading effect line sets it, any other line
\* leaves it
CategoryAfter(category, line) ==
    LET
        SHADING == << "s", "h", "a", "d", "i", "n", "g", " ", "e", "f", "f",
              "e", "c", "t", ":" >>
        SUPER_BLACKOUT == << "s", "u", "p", "e", "r", "-", "b", "l", "a",
              "c", "k", "o", "u", "t" >>
        SEMI_BLACKOUT == << "s", "e", "m", "i", "-", "b", "l", "a", "c", "k",
              "o", "u", "t" >>
    IN
    IF Contains(Lower(line), SHADING)
    THEN IF Contains(Lower(line), SUPER_BLACKOUT) THEN "super-blackout"
         ELSE IF Contains(Lower(line), SEMI_BLACKOUT) THEN "semi-blackout"
         ELSE IF Contains(Lower(line), BLACKOUT) THEN "blackout"
         ELSE category
    ELSE category

\* the loop "for code in current_codes: self.fabric_data[code] = {...}"
RecordGroup(data, codes, cordless, bead_chain, category) ==
    [code \in DOMAIN data \cup SeqSet(codes) |->
        IF code \in SeqSet(codes)
        THEN [cordless |-> cordless, bead_chain |-> bead_chain,
              category |-> category]
        ELSE data[code]]

\* parse_pricing_pdf is entered: the accumulators at their defaults
InitPricing ==
    /\ page = <<>>
    /\ doc = <<>>
    /\ page_num = 0
    /\ pc = "idle"
    /\ rpc = "start"
    /\ Constructed
    /\ NoRequests
    /\ NoCatalog
    /\ lines \in PricingDocs
    /\ line_index = 0
    /\ current_codes = <<>>
    /\ current_category = "semi-blackout"
    /\ cordless_price = 0
    /\ bead_chain_price = 0
    /\ fabric_data = <<>>

\* one turn of the while loop: the category, the codes and the price of the
\* line
ParseLine ==
    /\ line_index < Len(lines)
    /\ line_index' = line_index + 1
    /\ LET line == Strip(lines[line_index + 1])
           category == CategoryAfter(current_category, line)
           codes == current_codes \o FindCodes(line)
       IN  IF IsPriceLine(line) /\ cordless_price = 0
           THEN /\ cordless_price' = PriceValue(line)
                /\ current_codes' = codes
                /\ current_category' = category
                /\ UNCHANGED <<bead_chain_price, fabric_data>>
           ELSE IF IsPriceLine(line) /\ bead_chain_price = 0
           THEN /\ fabric_data' = RecordGroup(fabric_data, codes, cordless_price,
                                              PriceValue(line), category)
                /\ current_codes' = <<>>
                /\ cordless_price' = 0
                /\ bead_chain_price' = 0
                /\ current_category' = "semi-blackout"
           ELSE /\ current_codes' = codes
                /\ current_category' = category
                /\ UNCHANGED <<cordless_price, bead_chain_price, fabric_data>>
    /\ UNCHANGED <<lines, pagevars, runvars, webvars, catalogvars>>

SpecPricing == InitPricing /\ [][ParseLine]_vars

(***************************************************************************)
(* The multi-catalog extractors: extract_catalog_images of                 *)
(* CompleteZebraExtractor, extract_from_catalog and                        *)
(* fill_missing_from_catalog of SmartCompleteExtractor.  A call reads the   *)
(* pages of one catalog in order; image_files keeps every file written.    *)
(***************************************************************************)
\* the most catalog calls made on one extractor
MaxCalls == 2

\* the catalogs, each a sequence of pages
Catalogs ==
    LET
        \* an embedded image: what extract_image returns for it (or that it
        \* raises) and the rectangles it is placed at, each <<x0, y0, x1, y1>>
        CatalogImage(xref, ok, ext, data, width, height, rects) ==
            [xref |-> xref, extract_ok |-> ok, ext |-> ext, data |-> data,
             width |-> width, height |-> height, rects |-> rects]
        CatalogPage(text, images) == [text |-> text, images |-> images]
        TextHeaded == << "S", "e", "r", "i", "e", "s", " ", "8", "3", "0",
              "0", "3", " ", "8", "3", "0", "0", "3", "A", " ", "8", "3",
              "0", "0", "3", "B" >>
        TextCodes == << "8", "3", "0", "0", "3", "B", " ", "8", "3", "0",
              "0", "3", "A" >>
        TextOther == << "8", "3", "0", "4", "6", "A" >>
        TextPlain == << "Z", "e", "b", "r", "a" >>
        ImageOne ==
            CatalogImage(1, TRUE, "png", "d1", 600, 600, << <<60, 60, 140, 140>> >>)
        ImageTwo ==
            CatalogImage(2, TRUE, "jpeg", "d2", 600, 400, << <<260, 60, 340, 140>> >>)
        ImageSmall ==
            CatalogImage(3, TRUE, "png", "d3", 200, 200, << <<60, 260, 140, 340>> >>)
        ImageHuge ==
            CatalogImage(4, TRUE, "png", "d4", 5000, 5000, << <<60, 60, 140, 140>> >>)
        ImageUnplaced ==
            CatalogImage(5, TRUE, "png", "d5", 600, 600, <<>>)
        ImageBroken ==
            CatalogImage(6, FALSE, "png", "d6", 600, 600, << <<60, 60, 140, 140>> >>)
    IN
    << << CatalogPage(TextHeaded, << ImageOne, ImageTwo >>) >>,
       << CatalogPage(TextCodes, << ImageTwo, ImageOne >>) >>,
       << CatalogPage(TextHeaded, << ImageOne >>),
          CatalogPage(TextCodes, << ImageTwo, ImageOne >>) >>,
       << CatalogPage(TextOther, << ImageHuge, ImageSmall >>) >>,
       << CatalogPage(TextCodes, << ImageUnplaced, ImageBroken, ImageOne >>) >>,
       << CatalogPage(TextPlain, << ImageOne >>),
          CatalogPage(TextHeaded, << ImageTwo, ImageOne >>) >> >>

\* the results of parse_pricing_pdf the extractors start from
FabricDatas ==
    LET Priced == [cordless |-> 1250, bead_chain |-> 900, category |-> "semi-blackout"]
    IN
    { [code \in {<<"8", "3", "0", "0", "3", "A">>, <<"8", "3", "0", "0", "3", "B">>}
          |-> Priced],
      [code \in {<<"8", "3", "0", "0", "3", "A">>, <<"8", "3", "0", "0", "3", "B">>,
                 <<"8", "3", "0", "4", "6", "A">>} |-> Priced] }

\* the position of a character in the order of str comparison
CharRank(c) ==
    IF c \in Digit THEN DigitValue(c)
    ELSE 10 + (CHOOSE k \in 1..Len(Capitals) : Capitals[k] = c)

\* a < b for two codes
RECURSIVE CodeLess(_, _)
CodeLess(a, b) ==
    IF a = <<>> THEN b # <<>>
    ELSE IF b = <<>> THEN FALSE
    ELSE IF Head(a) = Head(b) THEN CodeLess(Tail(a), Tail(b))
    ELSE CharRank(Head(a)) < CharRank(Head(b))

\* sorted(S) for a set of codes
RECURSIVE SortedCodes(_)
SortedCodes(S) ==
    IF S = {} THEN <<>>
    ELSE LET least == CHOOSE c \in S : \A d \in S \ {c} : CodeLess(c, d)
         IN  << least >> \o SortedCodes(S \ {least})

\* code[:5]
SeriesOf(code) == SubSeq(code, 1, 5)

\* self.series_codes[series] after parse_pricing_pdf: the codes of the series,
\* sorted
series_codes(series) ==
    SortedCodes({code \in DOMAIN fabric_data : SeriesOf(code) = series})

\* [\s\n]+(\d{5}) from the start of s: << the digits >>, else <<>>
RECURSIVE DigitsAfterBlanks(_)
DigitsAfterBlanks(s) ==
    IF s # <<>> /\ Head(s) = " " THEN DigitsAfterBlanks(Tail(s))
    ELSE IF Len(s) >= 5 /\ \A k \in 1..5 : s[k] \in Digit THEN << SubSeq(s, 1, 5) >>
    ELSE <<>>

\* series[\s\n]+(\d{5}) matches at the start of s, case ignored
SeriesAt(s) ==
    LET SERIES == << "s", "e", "r", "i", "e", "s" >>
    IN
    IF StartsWith(Lower(s), SERIES) /\ Len(s) > Len(SERIES)
          /\ s[Len(SERIES) + 1] = " "
    THEN DigitsAfterBlanks(SubSeq(s, Len(SERIES) + 1, Len(s)))
    ELSE <<>>

\* re.search(r'series[\s\n]+(\d{5})', text, re.IGNORECASE): <<>> for None,
\* else << group(1) >> of the leftmost match
RECURSIVE SeriesMatch(_)
SeriesMatch(s) ==
    IF s = <<>> THEN <<>>
    ELSE IF SeriesAt(s) # <<>> THEN SeriesAt(s)
    ELSE SeriesMatch(Tail(s))

\* the series of a page for SmartCompleteExtractor: the heading, else the
\* first code of the text, else none
PageSeries(text) ==
    IF SeriesMatch(text) # <<>> THEN SeriesMatch(text)
    ELSE IF FindCodes(text) # <<>> THEN << SeriesOf(FindCodes(text)[1]) >>
    ELSE <<>>

\* round(n / d) of Python: to the nearest integer, halves to the even one
RoundDiv(n, d) ==
    LET q == n \div d
        r == n % d
    IN  IF 2 * r < d THEN q
        ELSE IF 2 * r > d THEN q + 1
        ELSE IF q % 2 = 0 THEN q ELSE q + 1

\* list.sort(key=...): stable, an item goes after the items it is not less
\* than
RECURSIVE SortByKey(_)
SortByKey(items) ==
    IF items = <<>> THEN <<>>
    ELSE LET KeyLess(a, b) == a[1] < b[1] \/ (a[1] = b[1] /\ a[2] < b[2])
             rest == SortByKey(SubSeq(items, 1, Len(items) - 1))
             last == items[Len(items)]
             before == {k \in 1..Len(rest) : KeyLess(last.key, rest[k].key)}
             at == IF before = {} THEN Len(rest) + 1
                   ELSE CHOOSE k \in before : \A j \in before : k <= j
         IN  SubSeq(rest, 1, at - 1) \o << last >> \o SubSeq(rest, at, Len(rest))

\* the size filter of a method: extract_catalog_images keeps at least
\* 300 x 300 with aspect 0.5 .. 2.5, extract_from_catalog 300 .. 4000 on both
\* sides with aspect 0.3 .. 3.0, fill_missing_from_catalog 300 .. 4000
Keeps(method, img) ==
    IF method = "extract_catalog_images"
    THEN /\ img.width >= 300 /\ img.height >= 300
         /\ 2 * img.width >= img.height
         /\ 2 * img.width <= 5 * img.height
    ELSE IF method = "extract_from_catalog"
    THEN /\ img.width >= 300 /\ img.height >= 300
         /\ img.width <= 4000 /\ img.height <= 4000
         /\ 10 * img.width >= 3 * img.height
         /\ img.width <= 3 * img.height
    ELSE /\ 300 <= img.width /\ img.width <= 4000
         /\ 300 <= img.height /\ img.height <= 4000

\* the sort key of a method: (round(center_y / 50), center_x) for
\* extract_catalog_images, (round(y / 100), x) for the other two
SortKey(method, rect) ==
    IF method = "extract_catalog_images"
    THEN << RoundDiv(rect[2] + rect[4], 100), (rect[1] + rect[3]) \div 2 >>
    ELSE << RoundDiv(rect[2], 100), rect[1] >>

\* the images of a page that pass the filter, at their first rectangle; an
\* image without rectangle or whose extraction raises is left out
RECURSIVE Kept(_, _)
Kept(method, images) ==
    IF images = <<>> THEN <<>>
    ELSE LET img == Head(images)
         IN  (IF img.rects # <<>> /\ img.extract_ok /\ Keeps(method, img)
              THEN << [ext |-> img.ext, data |-> img.data,
                       key |-> SortKey(method, img.rects[1])] >>
              ELSE <<>>) \o Kept(method, Tail(images))

\* mutant of Has: the map is never consulted
HasNever(images, code) == FALSE

\* code in self.extracted_images
Has(images, code) == code \in DOMAIN images

\* self.extracted_images[code] = filename
Put(images, code, filename) ==
    [c \in DOMAIN images \cup {code} |-> IF c = code THEN filename ELSE images[c]]

\* with open(filepath, 'wb') as f: f.write(img['data']), then the map entry
WriteImage(st, code, img, call) ==
    [images |-> Put(st.images, code, << code, img.ext >>),
     files |-> Append(st.files, [code |-> code, filename |-> << code, img.ext >>,
                                 data |-> img.data, call |-> call])]

\* the loop of extract_catalog_images over enumerate(fabric_codes), from idx
RECURSIVE CompleteAssign(_, _, _, _, _)
CompleteAssign(st, codes, imgs, idx, call) ==
    IF idx > Len(codes) THEN st
    ELSE CompleteAssign(
            IF ~Has(st.images, codes[idx]) /\ idx <= Len(imgs)
            THEN WriteImage(st, codes[idx], imgs[idx], call)
            ELSE st,
            codes, imgs, idx + 1, call)

\* extract_catalog_images over the pages of a catalog
RECURSIVE CompletePages(_, _, _)
CompletePages(st, pages, call) ==
    IF pages = <<>> THEN st
    ELSE LET codes == SortedCodes(SeqSet(FindCodes(Head(pages).text)))
             imgs == SortByKey(Kept("extract_catalog_images", Head(pages).images))
         IN  CompletePages(CompleteAssign(st, codes, imgs, 1, call),
                           Tail(pages), call)

\* the loop of extract_from_catalog over enumerate(missing_codes), from idx
RECURSIVE SmartAssign(_, _, _, _, _)
SmartAssign(st, codes, imgs, idx, call) ==
    IF idx > Len(codes) THEN st
    ELSE SmartAssign(
            IF idx <= Len(imgs) THEN WriteImage(st, codes[idx], imgs[idx], call)
            ELSE st,
            codes, imgs, idx + 1, call)

\* extract_from_catalog over the pages of a catalog
RECURSIVE SmartPages(_, _, _)
SmartPages(st, pages, call) ==
    IF pages = <<>> THEN st
    ELSE LET series == PageSeries(Head(pages).text)
             expected == IF series = <<>> THEN <<>> ELSE series_codes(series[1])
             missing_codes == SelectSeq(expected, LAMBDA c : ~Has(st.images, c))
             imgs == SortByKey(Kept("extract_from_catalog", Head(pages).images))
         IN  SmartPages(SmartAssign(st, missing_codes, imgs, 1, call),
                        Tail(pages), call)

\* the loop of fill_missing_from_catalog over enumerate(needed_codes)
RECURSIVE FillAssign(_, _, _, _, _)
FillAssign(st, codes, imgs, idx, call) ==
    IF idx > Len(codes) THEN st
    ELSE FillAssign(
            IF idx <= Len(imgs) /\ ~Has(st.images, codes[idx])
            THEN WriteImage(st, codes[idx], imgs[idx], call)
            ELSE st,
            codes, imgs, idx + 1, call)

\* fill_missing_from_catalog over the pages of a catalog; missing is the
\* set of codes without image when the call began
RECURSIVE FillPages(_, _, _, _)
FillPages(st, pages, missing, call) ==
    IF pages = <<>> THEN st
    ELSE LET series == PageSeries(Head(pages).text)
             needed_codes == IF series = <<>> THEN <<>>
                             ELSE SortedCodes({c \in missing : SeriesOf(c) = series[1]})
             imgs == SortByKey(Kept("fill_missing_from_catalog", Head(pages).images))
         IN  FillPages(FillAssign(st, needed_codes, imgs, 1, call),
                       Tail(pages), missing, call)

\* an extractor is constructed and the pricing document has been parsed
InitCatalog ==
    /\ page = <<>>
    /\ doc = <<>>
    /\ page_num = 0
    /\ pc = "idle"
    /\ rpc = "start"
    /\ Constructed
    /\ NoRequests
    /\ lines = <<>>
    /\ line_index = 0
    /\ current_codes = <<>>
    /\ current_category = ""
    /\ cordless_price = 0
    /\ bead_chain_price = 0
    /\ fabric_data \in FabricDatas
    /\ extractor \in {"CompleteZebraExtractor", "SmartCompleteExtractor"}
    /\ extracted_images = <<>>
    /\ image_files = <<>>
    /\ calls = <<>>

\* the state after a call
CallDone(method, n, st) ==
    /\ extracted_images' = st.images
    /\ image_files' = st.files
    /\ calls' = Append(calls, [method |-> method, catalog |-> n])
    /\ UNCHANGED <<extractor, pricingvars, pagevars, runvars, webvars>>

\* CompleteZebraExtractor.extract_catalog_images(pdf_path, catalog_name)
extract_catalog_images ==
    /\ extractor = "CompleteZebraExtractor"
    /\ Len(calls) < MaxCalls
    /\ \E n \in 1..Len(Catalogs) :
          CallDone("extract_catalog_images", n,
                   CompletePages([images |-> extracted_images, files |-> image_files],
                                 Catalogs[n], Len(calls) + 1))

\* SmartCompleteExtractor.extract_from_catalog(pdf_path, catalog_name)
extract_from_catalog ==
    /\ extractor = "SmartCompleteExtractor"
    /\ Len(calls) < MaxCalls
    /\ \E n \in 1..Len(Catalogs) :
          CallDone("extract_from_catalog", n,
                   SmartPages([images |-> extracted_images, files |-> image_files],
                              Catalogs[n], Len(calls) + 1))

\* SmartCompleteExtractor.fill_missing_from_catalog(pdf_path, catalog_name)
fill_missing_from_catalog ==
    /\ extractor = "SmartCompleteExtractor"
    /\ Len(calls) < MaxCalls
    /\ \E n \in 1..Len(Catalogs) :
          CallDone("fill_missing_from_catalog", n,
                   FillPages([images |-> extracted_images, files |-> image_files],
                             Catalogs[n],
                             {c \in DOMAIN fabric_data : ~Has(extracted_images, c)},
                             Len(calls) + 1))

NextCatalog ==
    \/ extract_catalog_images
    \/ extract_from_catalog
    \/ fill_missing_from_catalog

SpecCatalog == InitCatalog /\ [][NextCatalog]_vars

(***************************************************************************)
(* Properties.                                                             *)
(***************************************************************************)
\* the same placement of the same embedded image
SamePlacement(a, b) == a.xref = b.xref /\ a.cx = b.cx /\ a.cy = b.cy

\* C1: among the matches saved for the page (flat, curled and auto-fixed),
\* no image placement is saved under two different codes.
C1_PlacementClaimedOnce ==
    \A i, j \in 1..Len(saved_files) :
        (i # j /\ SamePlacement(saved_files[i].image, saved_files[j].image))
            => saved_files[i].code = saved_files[j].code

\* C2: no two result records of the page carry the same code.
C2_OneResultPerCode ==
    \A i, j \in 1..Len(results) : i # j => results[i].code # results[j].code

\* the two positions differ by less than tol on both axes
Within(a, b, tol) == Abs(a.cx - b.cx) < tol /\ Abs(a.cy - b.cy) < tol

\* s is a subsequence of t: its items occur in t, in the same order
RECURSIVE IsSubsequence(_, _)
IsSubsequence(s, t) ==
    IF s = <<>> THEN TRUE
    ELSE IF t = <<>> THEN FALSE
    ELSE IF Head(s) = Head(t) THEN IsSubsequence(Tail(s), Tail(t))
    ELSE IsSubsequence(s, Tail(t))

\* the output of a deduplication at tolerance tol of the occurrences raw:
\* no two kept items are near each other, every occurrence is near a kept
\* item met no later than itself, and the kept items are in document order
CollapsedFirst(kept, raw, tol) ==
    /\ \A i, j \in 1..Len(kept) : i # j => ~Within(kept[i], kept[j], tol)
    /\ \A k \in 1..Len(raw) :
         \E m \in 1..k : raw[m] \in SeqSet(kept) /\ Within(raw[k], raw[m], tol)
    /\ IsSubsequence(kept, raw)

\* C3: find_labels collapses the labels within 30 units on both axes: no
\* two labels of its output are within tolerance, every occurrence is within
\* tolerance of a retained label that comes no later in document order, and
\* the output is a subsequence of the occurrences.
C3_LabelsCollapsed ==
    pc # "start" => CollapsedFirst(labels, SpanLabels(page.spans), 30)

\* C3 witness: two occurrences within tolerance were collapsed into the first
C3_Witness ==
    /\ pc # "start"
    /\ Len(labels) >= 1
    /\ Len(SpanLabels(page.spans)) > Len(labels)
    /\ labels[1] = SpanLabels(page.spans)[1]

\* the codes of the records written without auto-fix, and with it
PrimaryCodes == {technical_specs[k].code : k \in {n \in 1..Len(technical_specs) :
                                                    ~technical_specs[n].auto_fixed}}

FixedCodes == {technical_specs[k].code : k \in {n \in 1..Len(technical_specs) :
                                                  technical_specs[n].auto_fixed}}

\* C4: on a page with a detected series every retained match, primary or
\* auto-fixed, has a code that starts with the series; on a page without a
\* detected series the series filter removes no match.
C4_SeriesPrefix ==
    /\ specs.number # <<>> =>
         /\ \A i \in 1..Len(matches) : StartsWith(matches[i].code, specs.number)
         /\ \A i \in 1..Len(results) : StartsWith(results[i].code, specs.number)
         /\ \A i \in 1..Len(saved_files) :
                StartsWith(saved_files[i].code, specs.number)
         /\ \A i \in 1..Len(technical_specs) :
                StartsWith(technical_specs[i].code, specs.number)
    /\ (pc \notin {"start", "extracted"} /\ specs.number = <<>>) =>
         matches = primary_matches

\* C4 witness: a series was detected, a spatially matched label of another
\* series was discarded and a label of the series was kept
C4_Witness ==
    /\ pc = "done"
    /\ specs.number # <<>>
    /\ Len(primary_matches) > Len(matches)
    /\ Len(results) >= 1

\* C5: every code handed to fix_missing_swatch is absent from the codes
\* extracted on the page, no code is attempted twice, and no auto-fixed
\* record carries the code of a primary record.
C5_FixOnlyMissing ==
    /\ \A i \in 1..Len(fix_order) : fix_order[i] \notin PrimaryCodes
    /\ \A i, j \in 1..Len(fix_order) : i # j => fix_order[i] # fix_order[j]
    /\ FixedCodes \cap PrimaryCodes = {}

\* C5 witness: a page with a primary record and an auto-fixed record
C5_Witness ==
    /\ pc = "done"
    /\ PrimaryCodes # {}
    /\ FixedCodes # {}

\* C6: each pool returned by extract_images is deduplicated by position at
\* 50 units, the first entry met of each group of near-duplicates being kept;
\* two images of identical content at the same position give one entry.
C6_PoolsDeduplicated ==
    pc # "start" =>
        /\ CollapsedFirst(flat_swatches, PoolEntries(page.images, "flat"), 50)
        /\ CollapsedFirst(curled_images, PoolEntries(page.images, "curled"), 50)

\* C6 witness: two images of identical content at the same position, one
\* pool entry at that position, the one met first
C6_Witness ==
    LET raw == PoolEntries(page.images, "flat")
    IN  /\ pc = "extracted"
        /\ \E i, j \in 1..Len(raw) :
              /\ i < j
              /\ raw[i].bytes = raw[j].bytes
              /\ raw[i].cx = raw[j].cx /\ raw[i].cy = raw[j].cy
              /\ raw[i].xref # raw[j].xref
              /\ Cardinality({k \in 1..Len(flat_swatches) :
                    /\ flat_swatches[k].cx = raw[i].cx
                    /\ flat_swatches[k].cy = raw[i].cy}) = 1
              /\ raw[i] \in SeqSet(flat_swatches)

\* every label has a flat image of the pool centred 100 units above it
EveryLabelHasImageAbove ==
    /\ labels # <<>>
    /\ \A i \in 1..Len(labels) :
         \E k \in 1..Len(flat_swatches) :
            /\ flat_swatches[k].cx = labels[i].cx
            /\ flat_swatches[k].cy = labels[i].cy - 100

\* the flat pass matched every label, in label order, to the image centred
\* 100 units above it
EachLabelMatchedAbove ==
    /\ Len(flat_matches) = Len(labels)
    /\ \A i \in 1..Len(labels) :
         /\ flat_matches[i].code = labels[i].code
         /\ flat_matches[i].image.cx = labels[i].cx
         /\ flat_matches[i].image.cy = labels[i].cy - 100

\* C7 as stated: when every label has its own flat image directly above it
\* at the preferred offset, the flat pass matches every label to the image
\* directly above it, whatever the layout and the order of the pool.
C7_DirectlyAbove ==
    (pc \notin {"start", "extracted"} /\ EveryLabelHasImageAbove) =>
        EachLabelMatchedAbove

\* no image of the flat pool is centred 100 units to the left of a label at
\* the height of the label, where strategy 2 scores it 0 as well
NoImageAtRightOffset ==
    \A i \in 1..Len(labels) :
        \A k \in 1..Len(flat_swatches) :
            ~(/\ labels[i].cx - flat_swatches[k].cx = 100
              /\ labels[i].cy = flat_swatches[k].cy)

\* C7 amended: when every label has its own flat image directly above it at
\* the preferred offset and no pool image sits at dx = 100, dy = 0 of a
\* label, the flat pass matches every label to the image directly above it.
C7_DirectlyAboveNoTie ==
    (pc \notin {"start", "extracted"} /\ EveryLabelHasImageAbove
        /\ NoImageAtRightOffset) => EachLabelMatchedAbove

\* C7 witness: two labels, each matched to the image above it
C7_Witness ==
    /\ pc = "matched"
    /\ EveryLabelHasImageAbove
    /\ NoImageAtRightOffset
    /\ Len(labels) >= 2
    /\ Len(flat_swatches) >= 2
    /\ EachLabelMatchedAbove

\* C8: on a page whose text contains the series 83046 the detected series is
\* 83046, and the label 83099A never reaches the output.
C8_SeriesDetected ==
    (pc # "start" /\ S83046 \in SeqSet(PageWords(page))) =>
        /\ specs.number = S83046
        /\ (S83099 \o <<"A">>) \notin PrimaryCodes \cup FixedCodes

\* Scenario D: a page of series 83046 with the label 83046C, no candidate
\* for it in the flat or the curled pool, and an image of at least 300x300
\* placed at dx = 200, dy = 150 from the label
ScenarioD ==
    /\ S83046 \in SeqSet(PageWords(page))
    /\ \E i \in 1..Len(labels) :
         /\ labels[i].code = S83046 \o <<"C">>
         /\ \A k \in 1..Len(flat_swatches) : ~Accepts(labels[i], flat_swatches[k])
         /\ \A k \in 1..Len(curled_images) : ~Accepts(labels[i], curled_images[k])
         /\ \E n \in 1..Len(page.images) :
              /\ Extractable(page.images[n])
              /\ BigEnough(page.images[n])
              /\ \E k \in 1..Len(page.images[n].rects) :
                   /\ labels[i].cx - Centre(page.images[n].rects[k]).cx = 200
                   /\ labels[i].cy - Centre(page.images[n].rects[k]).cy = 150

\* C9: in scenario D primary matching leaves 83046C unmatched and auto-fix
\* appends a record for it with auto_fixed set.
C9_ScenarioDRecovered ==
    (pc = "done" /\ ScenarioD) =>
        /\ (S83046 \o <<"C">>) \notin CodesOf(primary_matches)
        /\ (S83046 \o <<"C">>) \in FixedCodes

\* the image of the page with the given xref cannot be extracted
Unextractable(xref) ==
    \E n \in 1..Len(page.images) :
        page.images[n].xref = xref /\ ~Extractable(page.images[n])

\* every placement that the loop of extract_images appends to the pool is
\* represented in the pool
PoolComplete(pool, name) ==
    \A n \in 1..Len(page.images) :
        (Extractable(page.images[n]) /\ BigEnough(page.images[n])
           /\ PoolOf(page.images[n]) = name) =>
            \A k \in 1..Len(page.images[n].rects) :
                (page.images[n].rects[k][4] > 50 /\ page.images[n].rects[k][3] > 50)
                    => \E e \in 1..Len(pool) :
                          Within(pool[e], Centre(page.images[n].rects[k]), 50)

\* C10: an image whose extraction fails is in no pool and is never saved, no
\* exception of extract_image leaves process_page, every other image still
\* reaches its pool, and a missing code with an acceptable extractable
\* placement is still fixed.
C10_FailedImageSkipped ==
    /\ exception # "extract_image"
    /\ \A i \in 1..Len(flat_swatches) : ~Unextractable(flat_swatches[i].xref)
    /\ \A i \in 1..Len(curled_images) : ~Unextractable(curled_images[i].xref)
    /\ \A i \in 1..Len(saved_files) : ~Unextractable(saved_files[i].image.xref)
    /\ pc # "start" =>
         /\ PoolComplete(flat_swatches, "flat")
         /\ PoolComplete(curled_images, "curled")
    /\ pc \in {"validated", "done"} =>
         \A i \in 1..Len(fix_order) :
            (/\ LabelPos(page, fix_order[i]) # <<>>
             /\ \E n \in 1..Len(page.images) :
                  /\ Extractable(page.images[n])
                  /\ BigEnough(page.images[n])
                  /\ \E k \in 1..Len(page.images[n].rects) :
                       FixAccepts(LabelPos(page, fix_order[i])[1],
                                  Centre(page.images[n].rects[k])))
                => fix_order[i] \in FixedCodes

\* C10 witness: the first image of the page cannot be extracted, the second
\* one is in the flat pool and the page was processed to the end
C10_Witness ==
    /\ pc = "done"
    /\ Len(page.images) = 2
    /\ ~Extractable(page.images[1])
    /\ \E i \in 1..Len(flat_swatches) : flat_swatches[i].xref = page.images[2].xref
    /\ Len(results) >= 1

\* C11: no failure to decode the bytes of a matched or auto-fix-selected
\* image leaves process_page: the page is never abandoned with the error of
\* Image.open.
C11_DecodeFailureContained ==
    ~(pc = "raised" /\ exception = "Image.open")

\* C14: on a page without a detected series the code of every label is in
\* expected_codes, and a label left without a primary match was handed to
\* fix_missing_swatch.
C14_NoSeriesAllExpected ==
    (pc \in {"validated", "done"} /\ specs.number = <<>>) =>
        \A i \in 1..Len(labels) :
            /\ labels[i].code \in SeqSet(expected_codes)
            /\ labels[i].code \notin PrimaryCodes
                  => labels[i].code \in SeqSet(fix_order)

\* the score of an image for a label in the reference algorithm, <<>> when
\* the image is not a candidate
RefScore(label, img) ==
    LET dx == label.cx - img.cx
        dy == label.cy - img.cy
    IN  IF 30 < dy /\ dy < 350 /\ Abs(dx) < 200 THEN << Abs(dx) + Abs(dy - 100) >>
        ELSE IF 30 < dx /\ dx < 350 /\ Abs(dy) < 200 THEN << Abs(dy) + Abs(dx - 100) >>
        ELSE <<>>

\* the unused candidates of a label
RefCandidates(label, pool, used) ==
    {i \in 1..Len(pool) : i \notin used /\ RefScore(label, pool[i]) # <<>>}

\* the minimum-score candidate, the earliest one among equal scores
RefChoice(label, pool, used) ==
    CHOOSE i \in RefCandidates(label, pool, used) :
        \A j \in RefCandidates(label, pool, used) :
            \/ RefScore(label, pool[i])[1] < RefScore(label, pool[j])[1]
            \/ (RefScore(label, pool[i])[1] = RefScore(label, pool[j])[1] /\ i <= j)

\* the reference greedy algorithm over the labels in list order
RECURSIVE RefGreedy(_, _, _)
RefGreedy(ls, pool, used) ==
    IF ls = <<>> THEN <<>>
    ELSE IF RefCandidates(Head(ls), pool, used) = {}
    THEN RefGreedy(Tail(ls), pool, used)
    ELSE LET i == RefChoice(Head(ls), pool, used)
         IN  << [code |-> Head(ls).code, image |-> pool[i]] >>
                \o RefGreedy(Tail(ls), pool, used \cup {i})

\* the labels whose code is not among the flat matches
LeftForCurled ==
    SelectSeq(labels, LAMBDA l : \A k \in 1..Len(flat_matches) :
                                    flat_matches[k].code # l.code)

\* what the curled pass added to the flat matches
CurledMatches == SubSeq(primary_matches, Len(flat_matches) + 1, Len(primary_matches))

\* C19: each call of match_labels_to_images returns what the reference greedy
\* algorithm returns: the flat pass over all labels and the flat pool, the
\* curled pass over the labels left and the curled pool.
C19_MatcherIsReferenceGreedy ==
    pc \in {"matched", "saved", "validated", "done"} =>
        /\ flat_matches = RefGreedy(labels, flat_swatches, {})
        /\ CurledMatches = RefGreedy(LeftForCurled, curled_images, {})

\* C19 witness: a label had two candidates of equal score in the flat pool
\* and was matched to the earlier one
C19_Witness ==
    /\ pc = "matched"
    /\ \E n \in 1..Len(labels), i, j \in 1..Len(flat_swatches) :
         /\ i < j
         /\ RefScore(labels[n], flat_swatches[i]) # <<>>
         /\ RefScore(labels[n], flat_swatches[i]) = RefScore(labels[n], flat_swatches[j])
         /\ \E k \in 1..Len(flat_matches) :
               /\ flat_matches[k].code = labels[n].code
               /\ flat_matches[k].image = flat_swatches[i]

\* ms pairs, in order, distinct labels of ls with images of the pool that are
\* candidates for them
RECURSIVE PairsLabels(_, _, _)
PairsLabels(ms, ls, pool) ==
    IF ms = <<>> THEN TRUE
    ELSE IF ls = <<>> THEN FALSE
    ELSE IF /\ Head(ms).code = Head(ls).code
            /\ Head(ms).image \in SeqSet(pool)
            /\ RefScore(Head(ls), Head(ms).image) # <<>>
    THEN PairsLabels(Tail(ms), Tail(ls), pool)
    ELSE PairsLabels(ms, Tail(ls), pool)

\* the matches of one call over the labels ls and the pool
OneToOne(ms, ls, pool) ==
    /\ \A i, j \in 1..Len(ms) : i # j => ms[i].image # ms[j].image
    /\ PairsLabels(ms, ls, pool)
    /\ Len(ms) <= Len(ls)
    /\ Len(ms) <= Len(pool)

\* C20: one call of match_labels_to_images is one-to-one: no pool image goes
\* to two labels, no label gets two images, each match pairs a label of the
\* input with a pool image that one of the two rules accepts, and there are
\* at most min(number of labels, number of images) matches.
C20_MatchingOneToOne ==
    pc \in {"matched", "saved", "validated", "done"} =>
        /\ OneToOne(flat_matches, labels, flat_swatches)
        /\ OneToOne(CurledMatches, LeftForCurled, curled_images)

\* C20 witness: two labels had the same only candidate in the flat pool; the
\* first one got it and the second one stayed unmatched in the flat pass
C20_Witness ==
    /\ pc = "matched"
    /\ Len(labels) = 2
    /\ Len(flat_swatches) = 1
    /\ RefScore(labels[1], flat_swatches[1]) # <<>>
    /\ RefScore(labels[2], flat_swatches[1]) # <<>>
    /\ Len(flat_matches) = 1
    /\ flat_matches[1].code = labels[1].code

\* the entries of the ledger with the given test number
EntriesOf(t) == {i \in 1..Len(validation_log) : validation_log[i].test_num = t}

\* C12: in a completed run the ledger has exactly 37 entries and each test
\* number 1..37 occurs exactly once.
C12_LedgerHas37Entries ==
    RunReturned =>
        /\ Len(validation_log) = 37
        /\ \A t \in 1..37 : Cardinality(EntriesOf(t)) = 1

\* C13 as stated: every ledger entry with a test number in 1..34 is a PASS.
C13_OnlyCountTestsDepend ==
    \A i \in 1..Len(validation_log) :
        validation_log[i].test_num \in 1..34 => validation_log[i].status = "PASS"

\* C13, amended: every ledger entry with test number 1, 5..34 or 36 is a
\* PASS; besides tests 35 and 37, tests 2, 3 and 4 depend on page 3 of the
\* document.
C13_StructuralTestsPass ==
    \A i \in 1..Len(validation_log) :
        validation_log[i].test_num \in ({1, 36} \cup 5..34)
            => validation_log[i].status = "PASS"

\* C13 witness: a completed run whose ledger has a failed test 3 and a
\* passed test 4
C13_Witness ==
    /\ RunReturned
    /\ \E i \in EntriesOf(3) : validation_log[i].status = "FAIL"
    /\ \E i \in EntriesOf(4) : validation_log[i].status = "PASS"
    /\ EntriesOf(34) # {}

\* the number of pages the loop of run() goes through
PagesToProcess ==
    LET last == IF Len(doc) < 20 THEN Len(doc) ELSE 20
    IN  IF last >= 3 THEN last - 2 ELSE 0

\* C15: the handle opened at construction is closed at most once; it is
\* closed exactly when run() has returned, after every page was processed
\* and the output files were written, and nothing runs after the release;
\* when an exception has left run() the handle is still open.
C15_HandleReleasedOnce ==
    /\ closes <= 1
    /\ doc_open <=> closes = 0
    /\ RunReturned <=> ~doc_open
    /\ ~doc_open =>
         /\ Len(page_counts) = PagesToProcess
         /\ Cardinality(written) = 3
         /\ ~ENABLED NextRun
    /\ RunRaised => doc_open /\ closes = 0 /\ ~ENABLED NextRun

\* C15 witness: a run over several pages has returned and closed the document
C15_Witness ==
    /\ RunReturned
    /\ ~doc_open
    /\ closes = 1
    /\ Len(page_counts) >= 2

\* the records of technical_specs that carry auto_fixed
AutoFixedRecords == {i \in 1..Len(technical_specs) : technical_specs[i].auto_fixed}

\* C17: technical_specs has one record per saved match, in the order they
\* were saved, flagged auto_fixed exactly when the auto-fix saved it; once
\* the pages processed so far are counted, the extracted counts add up to
\* the number of records and the fixed counts to the number of flagged ones.
C17_OneRecordPerMatch ==
    /\ Len(technical_specs) = Len(saved_files)
    /\ \A i \in 1..Len(technical_specs) :
         /\ technical_specs[i].code = saved_files[i].code
         /\ technical_specs[i].resolution =
               << saved_files[i].image.w, saved_files[i].image.h >>
         /\ technical_specs[i].auto_fixed = saved_files[i].auto_fixed
    /\ (pc \in {"idle", "done"}) =>
         /\ Total(page_counts, "extracted") = Len(technical_specs)
         /\ Total(page_counts, "fixed") = Cardinality(AutoFixedRecords)

\* C17 witness: a run has returned with an auto-fixed record followed by a
\* primary one
C17_Witness ==
    /\ RunReturned
    /\ Len(technical_specs) >= 3
    /\ technical_specs[1].auto_fixed
    /\ ~technical_specs[2].auto_fixed
    /\ technical_specs[3].auto_fixed

\* the ledger entries of the per-page test
PageEntries == EntriesOf(35)

\* C18: the pages are processed one after the other from page 3 to
\* min(page count, 20): page_counts holds one record per processed page, in
\* increasing page order; the test 35 entries of a page come before those
\* of every later page and before the entries of tests 36 and 37.
C18_PagesInOrder ==
    /\ \A i \in 1..Len(page_counts) : page_counts[i].page = i + 2
    /\ Len(page_counts) <= PagesToProcess
    /\ rpc \in {"logged", "written", "returned"} => Len(page_counts) = PagesToProcess
    /\ \A i \in 1..Len(page_counts) :
          \E k \in PageEntries : validation_log[k].page = page_counts[i].page
    /\ \A i, j \in PageEntries :
          validation_log[i].page < validation_log[j].page => i < j
    /\ \A i \in PageEntries, j \in EntriesOf(36) \cup EntriesOf(37) : i < j

\* C18 witness: a document of more than 20 pages was processed up to page 20
C18_Witness ==
    /\ RunReturned
    /\ Len(doc) > 20
    /\ Len(page_counts) = 18
    /\ page_counts[18].page = 20
    /\ EntriesOf(37) # {}

\* the requests that got past the checks of the upload
Accepted == {r \in 1..Len(requests) : requests[r].output_dir # <<>>}

\* C16: no two upload requests are given the same output directory or the
\* same archive path, and no entry of the output folder of one request is
\* shared with another request.
C16_FreshOutputDirectory ==
    \A r, q \in Accepted :
        r # q =>
            /\ requests[r].output_dir # requests[q].output_dir
            /\ requests[r].zip_path # <<>> => requests[r].zip_path # requests[q].zip_path
            /\ \A e, f \in output_folder : (e.by = r /\ f.by = q) => e.path # f.path

\* the labels the reference greedy algorithm leaves without image
RECURSIVE RefUnmatched(_, _, _)
RefUnmatched(ls, pool, used) ==
    IF ls = <<>> THEN <<>>
    ELSE IF RefCandidates(Head(ls), pool, used) = {}
    THEN << Head(ls) >> \o RefUnmatched(Tail(ls), pool, used)
    ELSE RefUnmatched(Tail(ls), pool, used \cup {RefChoice(Head(ls), pool, used)})

\* the codes of a sequence of matches
MatchCodes(ms) == {ms[k].code : k \in 1..Len(ms)}

FlatShape(e) == 8 * e.h <= 10 * e.w /\ 10 * e.w <= 13 * e.h

\* 1.4 <= w/h <= 2.0 and w >= 500
CurledShape(e) == 14 * e.h <= 10 * e.w /\ 10 * e.w <= 20 * e.h /\ e.w >= 500

\* the shape and size conditions on the entries of the two pools, which share
\* no placement, each entry being a placement of its image on the page
PoolsWellFormed ==
    /\ \A i \in 1..Len(flat_swatches) :
          /\ flat_swatches[i].w >= 300 /\ flat_swatches[i].h >= 300
          /\ FlatShape(flat_swatches[i])
    /\ \A i \in 1..Len(curled_images) :
          /\ curled_images[i].w >= 300 /\ curled_images[i].h >= 300
          /\ CurledShape(curled_images[i])
    /\ \A i \in 1..Len(flat_swatches), j \in 1..Len(curled_images) :
          ~SamePlacement(flat_swatches[i], curled_images[j])
    /\ \A e \in SeqSet(flat_swatches) \cup SeqSet(curled_images) :
          \E n \in 1..Len(page.images) :
             /\ page.images[n].xref = e.xref
             /\ \E k \in 1..Len(page.images[n].rects) :
                   /\ Centre(page.images[n].rects[k]).cx = e.cx
                   /\ Centre(page.images[n].rects[k]).cy = e.cy

\* the placements of the images of the page that qualify for a pool by size
\* and shape, as pairs << image index, rectangle index >>
QualifyingPlacements(flat) ==
    {nk \in UNION { {<<n, k>> : k \in 1..Len(page.images[n].rects)} :
                    n \in 1..Len(page.images) } :
        /\ page.images[nk[1]].extract_ok
        /\ page.images[nk[1]].w >= 300 /\ page.images[nk[1]].h >= 300
        /\ IF flat THEN FlatShape(page.images[nk[1]])
                   ELSE ~FlatShape(page.images[nk[1]]) /\ CurledShape(page.images[nk[1]])}

\* the placement is represented in the pool, itself or by a near-duplicate
Represented(nk, pool) ==
    \E e \in 1..Len(pool) :
        Within(pool[e], Centre(page.images[nk[1]].rects[nk[2]]), 50)

\* the rectangle of the placement goes beyond 50 units from the top and from
\* the left of the page
PastMargin(nk) ==
    /\ page.images[nk[1]].rects[nk[2]][3] > 50
    /\ page.images[nk[1]].rects[nk[2]][4] > 50

\* C22 as stated: the pools are well formed and every placement of a
\* qualifying image is a candidate of its pool.
C22_EveryPlacementCandidate ==
    pc # "start" =>
        /\ PoolsWellFormed
        /\ \A nk \in QualifyingPlacements(TRUE) : Represented(nk, flat_swatches)
        /\ \A nk \in QualifyingPlacements(FALSE) : Represented(nk, curled_images)

\* C22, amended: the pools are well formed and every placement of a
\* qualifying image whose rectangle goes beyond the margin (x1 > 50 and
\* y1 > 50) is a candidate of its pool; a placement that ends within the
\* margin is in no pool.
C22_PlacementsPastMargin ==
    pc # "start" =>
        /\ PoolsWellFormed
        /\ \A nk \in QualifyingPlacements(TRUE) :
              PastMargin(nk) => Represented(nk, flat_swatches)
        /\ \A nk \in QualifyingPlacements(FALSE) :
              PastMargin(nk) => Represented(nk, curled_images)
        /\ \A e \in SeqSet(flat_swatches) \cup SeqSet(curled_images) :
              \E nk \in QualifyingPlacements(TRUE) \cup QualifyingPlacements(FALSE) :
                 /\ page.images[nk[1]].xref = e.xref
                 /\ Centre(page.images[nk[1]].rects[nk[2]]) = [cx |-> e.cx, cy |-> e.cy]
                 /\ PastMargin(nk)

\* C22 witness: an image placed twice gave two entries of the flat pool,
\* next to an entry of the curled pool
C22_Witness ==
    /\ pc = "extracted"
    /\ \E i, j \in 1..Len(flat_swatches) :
          /\ i # j
          /\ flat_swatches[i].xref = flat_swatches[j].xref
    /\ curled_images # <<>>

\* the lower-cased text of the page contains the word
TextHas(word) ==
    LET t == Lower(PageText(page.spans))
    IN  \E i \in 1..Len(t) :
           /\ i + Len(word) - 1 <= Len(t)
           /\ SubSeq(t, i, i + Len(word) - 1) = word

\* C23: the category is Super_Blackout when the lower-cased text contains
\* "super" and "blackout", otherwise Semi_Blackout when it contains "semi"
\* and "blackout", otherwise Transparent when it contains "transparent",
\* otherwise Blackout; it is one of the four folders made at construction
\* and every file of the page is saved in that folder.
C23_CategoryPrecedence ==
    pc # "start" =>
        /\ specs.blackout_rate =
              IF TextHas(SUPER) /\ TextHas(BLACKOUT) THEN "Super_Blackout"
              ELSE IF TextHas(SEMI) /\ TextHas(BLACKOUT) THEN "Semi_Blackout"
              ELSE IF TextHas(TRANSPARENT) THEN "Transparent"
              ELSE "Blackout"
        /\ specs.blackout_rate \in Categories
        /\ \A i \in 1..Len(saved_files) :
              /\ saved_files[i].folder = specs.blackout_rate
              /\ saved_files[i].folder \in Categories

\* C23 witness: the text has "semi", "super" and "blackout"; the category is
\* Super_Blackout and a file was saved in its folder
C23_Witness ==
    /\ pc = "done"
    /\ TextHas(SEMI)
    /\ TextHas(SUPER)
    /\ TextHas(BLACKOUT)
    /\ specs.blackout_rate = "Super_Blackout"
    /\ Len(saved_files) = 1
    /\ saved_files[1].folder = "Super_Blackout"

\* the placements <<image, rectangle>> of the page, of whatever image
AllPlacements ==
    UNION { { <<n, k>> : k \in 1..Len(page.images[n].rects) } :
            n \in 1..Len(page.images) }

\* the placements the relaxed rule accepts for a label position: the image
\* can be read and is at least 300 x 300, the label is 20 to 400 below the
\* centre and less than 250 to its side
RelaxedCandidates(pos) ==
    { nk \in AllPlacements :
        LET img == page.images[nk[1]]
            c == Centre(img.rects[nk[2]])
        IN  /\ Extractable(img)
            /\ img.w >= 300 /\ img.h >= 300
            /\ 20 < pos.cy - c.cy /\ pos.cy - c.cy < 400
            /\ Abs(c.cx - pos.cx) < 250 }

RelaxedScore(pos, nk) ==
    LET c == Centre(page.images[nk[1]].rects[nk[2]])
    IN  Abs(c.cx - pos.cx) + Abs(pos.cy - c.cy - 120)

\* the accepted placement of least score, the earliest in the order of the
\* scan among equal scores
RelaxedChoice(pos) ==
    CHOOSE nk \in RelaxedCandidates(pos) :
        \A o \in RelaxedCandidates(pos) \ {nk} :
            \/ RelaxedScore(pos, nk) < RelaxedScore(pos, o)
            \/ /\ RelaxedScore(pos, nk) = RelaxedScore(pos, o)
               /\ (nk[1] < o[1] \/ (nk[1] = o[1] /\ nk[2] < o[2]))

\* the files and the records the auto-fix wrote for a code
FixFilesOf(code) ==
    {j \in 1..Len(saved_files) :
        saved_files[j].auto_fixed /\ saved_files[j].code = code}

FixRecordsOf(code) ==
    {j \in 1..Len(technical_specs) :
        technical_specs[j].auto_fixed /\ technical_specs[j].code = code}

\* C24: for a missing code whose label position is found, fix_missing_swatch
\* looks at every placement of every readable image of at least 300 x 300
\* (used or not, in a pool or not), accepts 20 < dy < 400 and |dx| < 250 and
\* saves the accepted placement of least |dx| + |dy - 120|, the earliest on a
\* tie, in one file with one record; when the label is not found or no
\* placement is accepted it writes no file and appends no record.
C24_RelaxedFixSelection ==
    pc \in {"validated", "done"} =>
        \A i \in 1..Len(fix_order) :
            LET code == fix_order[i]
                pos == LabelPos(page, code)
            IN  IF pos # <<>> /\ RelaxedCandidates(pos[1]) # {}
                THEN LET nk == RelaxedChoice(pos[1])
                         img == page.images[nk[1]]
                     IN  /\ Cardinality(FixFilesOf(code)) = 1
                         /\ Cardinality(FixRecordsOf(code)) = 1
                         /\ \A j \in FixFilesOf(code) :
                               saved_files[j].image = ImgData(img, img.rects[nk[2]])
                ELSE FixFilesOf(code) = {} /\ FixRecordsOf(code) = {}

\* a fix chosen among two accepted placements, the chosen image being in
\* neither pool or already used by a primary match
C24_Witness ==
    /\ pc = "done"
    /\ \E i \in 1..Len(fix_order) :
          LET pos == LabelPos(page, fix_order[i])
          IN  /\ pos # <<>>
              /\ Cardinality(RelaxedCandidates(pos[1])) >= 2
              /\ FixFilesOf(fix_order[i]) # {}
              /\ \A j \in FixFilesOf(fix_order[i]) :
                    \/ PoolOf(saved_files[j].image) = "none"
                    \/ \E m \in 1..Len(saved_files) :
                          /\ ~saved_files[m].auto_fixed
                          /\ saved_files[m].image = saved_files[j].image

\* self.validations_total of __init__
validations_total == 37

\* the PASS entries of the ledger
PassEntries == {i \in 1..Len(validation_log) : validation_log[i].status = "PASS"}

\* C27: validations_passed is the number of PASS entries of the ledger and
\* never exceeds validations_total.
C27_PassedWithinTotal ==
    /\ validations_passed = Cardinality(PassEntries)
    /\ validations_passed <= validations_total

\* C28: the record of a page with a detected series has extracted <= expected
\* and fixed <= expected - (extracted - fixed); the record of a page without
\* one has expected = 0 and fixed = 0, whatever its labels and matches.
C28_PageCountBounds ==
    \A i \in 1..Len(page_counts) :
        LET c == page_counts[i]
        IN  IF c.series # <<>>
            THEN /\ c.extracted <= c.expected
                 /\ c.fixed <= c.expected - (c.extracted - c.fixed)
            ELSE c.expected = 0 /\ c.fixed = 0

\* a page with a series, a primary match and a fix, every expected code
\* accounted for
C28_Witness ==
    /\ pc = "done"
    /\ \E i \in 1..Len(page_counts) :
          /\ page_counts[i].series # <<>>
          /\ page_counts[i].fixed = 1
          /\ page_counts[i].extracted = 2
          /\ page_counts[i].expected = 2

\* the expected codes of a counted page that are not among its codes
MissingOn(c) ==
    SeqSet(ExpectedCodes(find_labels(doc[c.page]), c.series)) \ SeqSet(c.codes)

\* C29: whenever test 37 is recorded as PASS, no processed page is left with
\* an expected code that was neither extracted nor auto-fixed.
C29_ReconciliationSound ==
    \A i \in EntriesOf(37) :
        validation_log[i].status = "PASS" =>
            \A k \in 1..Len(page_counts) : MissingOn(page_counts[k]) = {}

\* the uploaded file that request r saved, as far as it is still in the
\* upload folder
InputOf(r) == {e \in At(upload_folder, requests[r].pdf_path) : e.by = r}

\* every finished request has had the file it saved removed
UploadsRemoved ==
    \A r \in 1..Len(requests) :
        (requests[r].state = "done" /\ requests[r].pdf_path # <<>>) => InputOf(r) = {}

\* the cleanup of request r leaves the input of every other request that has
\* not read it yet as it was
CleanupSpares(r) ==
    UploadCleanup(r) =>
        \A q \in 1..Len(requests) :
            (q # r /\ requests[q].state = "saved") =>
                {e \in At(upload_folder', requests[q].pdf_path) : e.by = q} = InputOf(q)

\* C30: when upload_pdf has finished, with a result or with an error, the
\* file it saved is gone from the upload folder, and the cleanup of one
\* request never removes the input file that another request in flight has
\* still to read, same file name or not.
C30_CleanupContained ==
    /\ []UploadsRemoved
    /\ [][\A r \in 1..Len(requests) : CleanupSpares(r)]_vars

\* the two-price machine, from its defaults through the first n lines: the
\* codes and the price lines met since the last reset, the category, and
\* the groups recorded so far
RECURSIVE TwoPriceMachine(_)
TwoPriceMachine(n) ==
    IF n = 0
    THEN [codes |-> <<>>, prices |-> <<>>, category |-> "semi-blackout",
          data |-> <<>>]
    ELSE LET before == TwoPriceMachine(n - 1)
             line == Strip(lines[n])
             codes == before.codes \o FindCodes(line)
             category == CategoryAfter(before.category, line)
         IN  IF ~IsPriceLine(line)
             THEN [before EXCEPT !.codes = codes, !.category = category]
             ELSE IF before.prices = <<>>
             THEN [before EXCEPT !.codes = codes, !.category = category,
                                 !.prices = << PriceValue(line) >>]
             ELSE [codes |-> <<>>, prices |-> <<>>, category |-> "semi-blackout",
                   data |-> RecordGroup(before.data, codes, before.prices[1],
                                        PriceValue(line), category)]

\* C25: after every line parse_pricing_pdf is where the two-price machine
\* is: the codes collected since the last reset are recorded when the second
\* price line since that reset is read, with the first price line as cordless
\* and the second as bead_chain and the category of that moment, the
\* accumulators are then back at their defaults, and nothing is recorded at
\* any other line.
C25_TwoPriceMachine ==
    current_category # "" =>
        LET m == TwoPriceMachine(line_index)
        IN  /\ fabric_data = m.data
            /\ current_codes = m.codes
            /\ current_category = m.category
            /\ cordless_price = (IF m.prices = <<>> THEN 0 ELSE m.prices[1])
            /\ bead_chain_price = 0

\* C26: the code-to-image map is write-once over any sequence of catalog
\* calls: no two image files are ever written for one code, the map holds
\* exactly the codes written, and the entry of a code is the name of the one
\* file written for it, whatever later catalogs and later pages offer.
C26_ImagesWrittenOnce ==
    /\ \A i, j \in 1..Len(image_files) :
          i # j => image_files[i].code # image_files[j].code
    /\ DOMAIN extracted_images = {image_files[i].code : i \in 1..Len(image_files)}
    /\ \A i \in 1..Len(image_files) :
          extracted_images[image_files[i].code] = image_files[i].filename

\* a second call reads a catalog with a page that names a code written by
\* the first call and has an image to give, and writes a file for another
\* code
C26_Witness ==
    /\ Len(calls) = 2
    /\ \E i, j \in 1..Len(image_files) :
          /\ image_files[i].call = 1
          /\ image_files[j].call = 2
          /\ \E k \in 1..Len(Catalogs[calls[2].catalog]) :
                LET later == Catalogs[calls[2].catalog][k]
                IN  /\ image_files[i].code \in SeqSet(FindCodes(later.text))
                    /\ Kept(calls[2].method, later.images) # <<>>

====
